---- MODULE Spec2Model ----
(***************************************************************************)
(* wlvideo: the main loop of main.c (playback clock, catch-up decode,     *)
(* render path selection), the decoder's frame export of decode.c, the    *)
(* renderer's EGL image cache and draw path of render.c, and the output   *)
(* lifecycle handlers of wayland.c.                                       *)
(*                                                                         *)
(* A double is a binary floating-point number with MantBits significant   *)
(* bits, counted in clock quanta; every double operation rounds to        *)
(* nearest, ties to even.  One frame lasts FrameDur quanta.               *)
(* The plane descriptors of one exported frame are one descriptor         *)
(* token (frame.fd); open_fds is the process's table of open exported     *)
(* descriptors.  An EGL image is named by the (surface_id, generation) of *)
(* the frame it was imported from.                                        *)
(***************************************************************************)
EXTENDS Integers, Sequences, FiniteSets, TLC

\* ---- program constants ----
max_skip == 5
reset_threshold == max_skip * 2
EGL_CACHE_SIZE == 8
SW_RING_SIZE == 2
SeekGenStep == 100
DRM_FORMAT_MOD_LINEAR == 0

\* ---- bounds of the model ----
FrameDur == 42
MantBits == 8
MaxTime == 800
MaxGen == 204
MaxFrameCount == 3
MaxFaults == 1
PoolSize == 2
ModHalfBits == 4

\* ---- environment ----
Outs == {1, 2}
ConfigSizes == {<<1, 1>>, <<2, 1>>}
\* poll returns a good half frame, a frame and a half, or sixteen frames later
Delays == {24, 64, 16 * FrameDur + 8}
NoImage == <<>>
NoFd == -1

OutStates == {"UNCONFIGURED", "READY", "WAITING_CALLBACK",
              "PENDING_DESTROY", "PENDING_RECREATE", "DEFUNCT"}

VARIABLES
    pc,               \* position of main(): top, lifecycle, poll, catchup, pace, render, cleanup, done
    quit,             \* static volatile sig_atomic_t quit
    app,              \* App fields used by the loop
    t,                \* double t = now() of the current iteration
    displayed_frame,  \* int64_t displayed_frame
    target,           \* int64_t target
    decoded,          \* int decoded
    have_frame,       \* bool have_frame
    frame,            \* Frame frame
    dec,              \* struct Decoder
    rend,             \* struct Renderer
    outs,             \* the Output list
    cursor,           \* position of the render loop in the Output list
    open_fds,         \* open descriptors obtained from surface exports
    last_op,          \* what the last decoder_get_frame or renderer_draw call was given and did
    faults,           \* failures and disruptions the environment has produced so far
    tick_displayed,   \* displayed_frame when the current iteration read the clock
    paced,            \* "reset": the pacing check reset the clock; "next": the first target
                      \* after that reset has been computed; "no" otherwise
    tick_calls,       \* decoder_get_frame calls the current iteration has made
    reset_gen,        \* dec.surface_generation when reset_renderer last began, -1 before
    dmabuf,           \* the DmaBuf of the frame given to render_dmabuf (import check)
    egl_attr,         \* the attribute list eglCreateImageKHR was called with (import check)
    fatal,            \* the runtime error that ended the loop, "none" without one
    exit_code         \* <<>> while main() runs, <<v>> once it has returned v

vars == <<pc, quit, app, t, displayed_frame, target, decoded, have_frame,
          frame, dec, rend, outs, cursor, open_fds, last_op, faults,
          tick_displayed, paced, tick_calls, reset_gen, dmabuf, egl_attr,
          fatal, exit_code>>

ghosts == <<tick_displayed, paced, tick_calls, reset_gen>>

exits == <<fatal, exit_code>>

import_io == <<dmabuf, egl_attr>>

\* ---- helpers ----
SetMin(S) == CHOOSE x \in S : \A y \in S : x <= y
SetMax(S) == CHOOSE x \in S : \A y \in S : x >= y

FirstOut == SetMin(Outs)
LastOut == SetMax(Outs)

\* ---- double arithmetic ----
RECURSIVE Pow2(_)
Pow2(n) == IF n <= 0 THEN 1 ELSE 2 * Pow2(n - 1)

\* floor(log2(x)) for x >= 1
RECURSIVE Log2Floor(_)
Log2Floor(x) == IF x < 2 THEN 0 ELSE 1 + Log2Floor(x \div 2)

\* distance between neighbouring doubles at magnitude x >= 0
RECURSIVE UlpOf(_)
UlpOf(x) == IF x < Pow2(MantBits) THEN 1 ELSE 2 * UlpOf(x \div 2)

\* the double nearest to x, ties to the even significand
RoundD(x) ==
    LET a  == IF x >= 0 THEN x ELSE -x
        u  == UlpOf(a)
        lo == (a \div u) * u
        r  == a - lo
        n  == IF 2 * r < u THEN lo
              ELSE IF 2 * r > u THEN lo + u
              ELSE IF (lo \div u) % 2 = 0 THEN lo ELSE lo + u
    IN IF x >= 0 THEN n ELSE -n

\* (int64_t)(a / b) for doubles a >= 0, b > 0: the quotient is rounded to a double,
\* the conversion then truncates; a quotient within half a spacing below the next
\* integer m rounds to m
TruncQuot(a, b) ==
    LET n == a \div b
        m == n + 1
        s == IF m = 1 THEN MantBits ELSE MantBits - 1 - Log2Floor(m - 1)
    IN IF a % b = 0 THEN n
       ELSE IF s >= 0 /\ (m * b - a) * Pow2(s + 1) <= b THEN m
       ELSE n

\* (int64_t)(a / b), any sign of a
TruncDiv(a, b) == IF a >= 0 THEN TruncQuot(a, b) ELSE -TruncQuot(-a, b)

\* the kernel hands out the lowest free descriptor number
AllocFd(open) == SetMin({n \in 3..(3 + Cardinality(open)) : n \notin open})

\* ================= decode.c =================

\* one call's outcome at the libav / VA-API boundary
DecodeOutcomes ==
    {[kind |-> k, export_ok |-> FALSE, extract_ok |-> TRUE, seek_ok |-> s] :
        k \in {"eof", "error"}, s \in BOOLEAN}
    \cup {[kind |-> "frame", export_ok |-> e, extract_ok |-> TRUE, seek_ok |-> TRUE] :
            e \in BOOLEAN}

\* decoder_close_dmabuf: close every descriptor >= 0 and set it to -1
decoder_close_dmabuf(f, open) ==
    [frame |-> [f EXCEPT !.fd = NoFd],
     open  |-> IF f.fd >= 0 THEN open \ {f.fd} ELSE open]

\* an export_vaapi_dmabuf that does not advance the generation
export_vaapi_dmabuf_same_generation(d, f, open, o) ==
    IF ~o.export_ok
    THEN [ok |-> FALSE, dec |-> d, frame |-> f, open |-> open]
    ELSE LET fd == AllocFd(open)
         IN [ok    |-> TRUE,
             dec   |-> [d EXCEPT !.last_exported = d.surface_generation],
             frame |-> [f EXCEPT !.type = "HW",
                                 !.surface_id = d.pool_next,
                                 !.generation = d.surface_generation,
                                 !.fd = fd,
                                 !.nonlinear = d.nonlinear],
             open  |-> open \cup {fd}]

\* export_vaapi_dmabuf: vaExportSurfaceHandle, then the Frame takes the descriptors;
\* d.last_exported records the generation the latest exported frame carries
export_vaapi_dmabuf(d, f, open, o) ==
    IF ~o.export_ok
    THEN [ok |-> FALSE, dec |-> d, frame |-> f, open |-> open]
    ELSE LET fd == AllocFd(open)
         IN [ok    |-> TRUE,
             dec   |-> [d EXCEPT !.surface_generation = d.surface_generation + 1,
                                 !.last_exported = d.surface_generation],
             frame |-> [f EXCEPT !.type = "HW",
                                 !.surface_id = d.pool_next,
                                 !.generation = d.surface_generation,
                                 !.fd = fd,
                                 !.nonlinear = d.nonlinear],
             open  |-> open \cup {fd}]

\* the planes of a VADRMPRIMESurfaceDescriptor in the order the two loops of
\* export_vaapi_dmabuf visit them, each as the index of its object
RECURSIVE FlatPlanes(_)
FlatPlanes(layers) ==
    IF layers = <<>> THEN <<>> ELSE Head(layers) \o FlatPlanes(Tail(layers))

\* plane loops that give every plane the descriptor of its object
RECURSIVE export_plane_loop_no_dup(_, _, _, _, _)
export_plane_loop_no_dup(objects, planes, idx, st, dup_ok) ==
    IF idx > Len(planes) \/ idx > 4 THEN st
    ELSE LET obj == planes[idx]
             st1 == IF obj >= Len(objects) THEN st
                    ELSE [st EXCEPT !.fd[idx] = objects[obj + 1],
                                    !.taken = @ \cup {obj}]
         IN export_plane_loop_no_dup(objects, planes, idx + 1,
                                     [st1 EXCEPT !.num_planes = idx], dup_ok)

\* export_vaapi_dmabuf, the plane loops from plane idx on: objects are the descriptors
\* of desc.objects, st the DmaBuf, taken[] and the descriptors open in the process;
\* dup_ok is whether dup() succeeds
RECURSIVE export_plane_loop(_, _, _, _, _)
export_plane_loop(objects, planes, idx, st, dup_ok) ==
    IF idx > Len(planes) \/ idx > 4 THEN st
    ELSE LET obj == planes[idx]
             n == AllocFd(st.open)
             st1 == IF obj >= Len(objects) THEN st
                    ELSE IF obj \notin st.taken
                    THEN [st EXCEPT !.fd[idx] = objects[obj + 1],
                                    !.taken = @ \cup {obj}]
                    ELSE IF dup_ok
                    THEN [st EXCEPT !.fd[idx] = n, !.open = @ \cup {n}]
                    ELSE [st EXCEPT !.fd[idx] = NoFd]
         IN export_plane_loop(objects, planes, idx + 1,
                              [st1 EXCEPT !.num_planes = idx], dup_ok)

\* export_vaapi_dmabuf after a successful vaExportSurfaceHandle: the DmaBuf of the
\* Frame, and the descriptors left open once the unused objects are closed
export_vaapi_dmabuf_fds(objects, layers, open, dup_ok) ==
    LET st0 == [fd |-> [i \in 1..4 |-> NoFd], num_planes |-> 0, taken |-> {},
                open |-> open]
        \* the rest of the function, given the result st of the plane loops
        AfterPlanes(st) ==
            [ok |-> st.num_planes > 0,
             dmabuf |-> [fd |-> st.fd, num_planes |-> st.num_planes],
             taken |-> st.taken,
             open |-> st.open \ {objects[i] : i \in {j \in 1..Len(objects) :
                                                       (j - 1) \notin st.taken}}]
    IN AfterPlanes(export_plane_loop(objects, FlatPlanes(layers), 1, st0, dup_ok))

\* decoder_close_dmabuf on the four descriptors of a DmaBuf, from plane i on: closed
\* lists the descriptors given to close(), bad is whether one of them was not open
RECURSIVE decoder_close_dmabuf_fds(_, _, _)
decoder_close_dmabuf_fds(fd, open, i) ==
    IF i > 4
    THEN [fd |-> fd, open |-> open, closed |-> <<>>, bad |-> FALSE]
    ELSE IF fd[i] >= 0
    THEN LET rest == decoder_close_dmabuf_fds([fd EXCEPT ![i] = NoFd], open \ {fd[i]}, i + 1)
         IN [rest EXCEPT !.closed = <<fd[i]>> \o @, !.bad = @ \/ fd[i] \notin open]
    ELSE decoder_close_dmabuf_fds(fd, open, i + 1)

\* the picture a ring slot holds is named by the number of the extraction that wrote it,
\* counted modulo two laps of the ring
SwStamps == 0..(2 * SW_RING_SIZE - 1)

\* an extract_sw_frame that writes the slot after the one it reports in the Frame
extract_sw_frame_next_slot(d, f, o) ==
    IF ~o.extract_ok
    THEN [ok |-> FALSE, dec |-> d, frame |-> f]
    ELSE LET slot == d.current_ring_slot
             written == (slot + 1) % SW_RING_SIZE
         IN [ok    |-> TRUE,
             dec   |-> [d EXCEPT !.current_ring_slot = (slot + 1) % SW_RING_SIZE,
                                 !.ring[written] = d.sw_seq,
                                 !.sw_seq = (d.sw_seq + 1) % (2 * SW_RING_SIZE)],
             frame |-> [f EXCEPT !.ring_slot = slot,
                                 !.sw_stamp = d.sw_seq,
                                 !.sw_available = TRUE,
                                 !.type = IF f.type # "HW" THEN "SW" ELSE f.type]]

\* extract_sw_frame: copy into the next ring slot; d.ring is the content of the
\* SoftwareRing the call is given, d.sw_seq the number of the extraction
extract_sw_frame(d, f, o) ==
    IF ~o.extract_ok
    THEN [ok |-> FALSE, dec |-> d, frame |-> f]
    ELSE LET slot == d.current_ring_slot
         IN [ok    |-> TRUE,
             dec   |-> [d EXCEPT !.current_ring_slot = (slot + 1) % SW_RING_SIZE,
                                 !.ring[slot] = d.sw_seq,
                                 !.sw_seq = (d.sw_seq + 1) % (2 * SW_RING_SIZE)],
             frame |-> [f EXCEPT !.ring_slot = slot,
                                 !.sw_stamp = d.sw_seq,
                                 !.sw_available = TRUE,
                                 !.type = IF f.type # "HW" THEN "SW" ELSE f.type]]

\* decoder_get_frame
decoder_get_frame(d, f, open, need_sw, o) ==
    IF o.kind = "eof"
    THEN [ok |-> FALSE, dec |-> [d EXCEPT !.eof = TRUE], frame |-> f, open |-> open]
    ELSE IF o.kind = "error"
    THEN [ok |-> FALSE, dec |-> d, frame |-> f, open |-> open]
    ELSE LET f0 == [f EXCEPT !.type = "SW", !.sw_available = FALSE]
             try_export == d.hw_vaapi /\ (~d.dmabuf_export_tested \/ d.dmabuf_export_works)
             \* the rest of the call, given the result ex0 of the export attempt
             AfterExport(ex0) ==
                 LET \* the decoder's surface pool hands out its surfaces in turn
                     ex == [ex0 EXCEPT !.dec.pool_next =
                               IF d.hw_vaapi THEN (d.pool_next + 1) % PoolSize
                               ELSE d.pool_next]
                     hw_ok == ex.ok
                     want_sw == need_sw \/ ~hw_ok
                     \* the return, given the result sw of the CPU copy
                     AfterExtract(sw) ==
                         IF want_sw /\ ~sw.ok /\ ~hw_ok
                         THEN [ok |-> FALSE, dec |-> sw.dec, frame |-> sw.frame,
                               open |-> ex.open]
                         ELSE [ok |-> hw_ok \/ sw.frame.sw_available,
                               dec |-> sw.dec, frame |-> sw.frame, open |-> ex.open]
                 IN AfterExtract(IF want_sw
                                 THEN extract_sw_frame(ex.dec, ex.frame, o)
                                 ELSE [ok |-> TRUE, dec |-> ex.dec, frame |-> ex.frame])
         IN AfterExport(IF try_export
                        THEN export_vaapi_dmabuf(d, f0, open, o)
                        ELSE [ok |-> FALSE, dec |-> d, frame |-> f0, open |-> open])

\* decoder_seek_start
decoder_seek_start(d, seek_ok) ==
    IF ~seek_ok
    THEN [ret |-> -1, dec |-> d]
    ELSE [ret |-> 0,
          dec |-> [d EXCEPT !.eof = FALSE,
                            !.surface_generation = d.surface_generation + SeekGenStep]]

\* decoder_dmabuf_export_supported
decoder_dmabuf_export_supported(d) ==
    IF ~d.dmabuf_export_tested THEN TRUE ELSE d.dmabuf_export_works

\* decoder_set_dmabuf_export_result
decoder_set_dmabuf_export_result(d, works) ==
    [d EXCEPT !.dmabuf_export_tested = TRUE, !.dmabuf_export_works = works]

\* decoder_increment_generation (declared in wlvideo.h, called by reset_renderer)
decoder_increment_generation(d) ==
    [d EXCEPT !.surface_generation = d.surface_generation + 1]

\* ================= render.c =================

CacheIdx == 0..(EGL_CACHE_SIZE - 1)

EmptyEntry == [surface_id |-> 0, generation |-> 0, image |-> NoImage, last_use |-> 0]

\* renderer_clear_cache: destroy every image, zero every surface_id
renderer_clear_cache(r) ==
    [r EXCEPT !.cache = [i \in CacheIdx |->
                            [r.cache[i] EXCEPT !.image = NoImage, !.surface_id = 0]]]

\* a first loop that compares the surface identity alone
RECURSIVE CacheFind_AnyGeneration(_, _, _, _)
CacheFind_AnyGeneration(cache, surface_id, generation, i) ==
    IF i >= EGL_CACHE_SIZE THEN -1
    ELSE IF cache[i].surface_id = surface_id THEN i
    ELSE CacheFind_AnyGeneration(cache, surface_id, generation, i + 1)

\* cache_get, first loop: index of the entry matching (surface_id, generation), or -1
RECURSIVE CacheFind(_, _, _, _)
CacheFind(cache, surface_id, generation, i) ==
    IF i >= EGL_CACHE_SIZE THEN -1
    ELSE IF cache[i].surface_id = surface_id /\ cache[i].generation = generation THEN i
    ELSE CacheFind(cache, surface_id, generation, i + 1)

\* cache_get, second loop: first empty slot, else the least recently used one
RECURSIVE CacheVictim(_, _, _, _)
CacheVictim(cache, i, best, oldest) ==
    IF i >= EGL_CACHE_SIZE THEN best
    ELSE IF cache[i].surface_id = 0 THEN i
    ELSE IF cache[i].last_use < oldest
         THEN CacheVictim(cache, i + 1, i, cache[i].last_use)
         ELSE CacheVictim(cache, i + 1, best, oldest)

\* a cache_get that reuses the slot without destroying the image it holds
cache_get_keep_image(cache, surface_id, generation) ==
    LET hit == CacheFind(cache, surface_id, generation, 0)
    IN IF hit >= 0
       THEN [idx |-> hit, cache |-> cache, destroyed |-> NoImage]
       ELSE LET best == CacheVictim(cache, 0, 0, cache[0].last_use)
            IN [idx |-> best,
                destroyed |-> NoImage,
                cache |-> [cache EXCEPT ![best] =
                              [@ EXCEPT !.surface_id = surface_id,
                                        !.generation = generation]]]

\* cache_get: the entry's index, the image handed to eglDestroyImageKHR and the cache
\* after the call
cache_get(cache, surface_id, generation) ==
    LET hit == CacheFind(cache, surface_id, generation, 0)
    IN IF hit >= 0
       THEN [idx |-> hit, cache |-> cache, destroyed |-> NoImage]
       ELSE LET best == CacheVictim(cache, 0, 0, cache[0].last_use)
            IN [idx |-> best,
                destroyed |-> cache[best].image,
                cache |-> [cache EXCEPT ![best] =
                              [@ EXCEPT !.image = NoImage,
                                        !.surface_id = surface_id,
                                        !.generation = generation]]]

NoDraw == [ok |-> FALSE, import_called |-> FALSE, image |-> NoImage]

\* a render_dmabuf that marks the rejected import but keeps the key in the claimed slot
render_dmabuf_keep_key(r, f, import_ok) ==
    IF ~r.has_dmabuf THEN [rend |-> r] @@ NoDraw
    ELSE IF r.dmabuf_tested /\ ~r.dmabuf_works THEN [rend |-> r] @@ NoDraw
    ELSE LET \* the rest of the call, given the entry cg that cache_get returned
             AfterGet(cg) ==
                 LET ce == cg.cache[cg.idx]
                     r1 == [r EXCEPT !.cache = cg.cache]
                 IN IF ce.image = NoImage
                    THEN IF ~r.has_modifiers /\ f.nonlinear
                         THEN [rend |-> [r1 EXCEPT !.dmabuf_tested = TRUE,
                                                   !.dmabuf_works = FALSE]] @@ NoDraw
                         ELSE IF ~(import_ok /\ f.fd >= 0)
                         THEN [rend |-> [r1 EXCEPT !.dmabuf_tested = TRUE,
                                                   !.dmabuf_works = FALSE,
                                                   !.cache[cg.idx].surface_id = 0],
                               ok |-> FALSE, import_called |-> TRUE, image |-> NoImage]
                         ELSE LET img == <<f.surface_id, f.generation>>
                              IN [rend |-> [r1 EXCEPT !.dmabuf_tested = TRUE,
                                                      !.dmabuf_works = IF r.dmabuf_tested
                                                                       THEN r.dmabuf_works ELSE TRUE,
                                                      !.cache[cg.idx].image = img,
                                                      !.cache[cg.idx].last_use = r.frame_count],
                                  ok |-> TRUE, import_called |-> TRUE, image |-> img]
                    ELSE [rend |-> [r1 EXCEPT !.cache[cg.idx].last_use = r.frame_count],
                          ok |-> TRUE, import_called |-> FALSE, image |-> ce.image]
         IN AfterGet(cache_get(r.cache, f.surface_id, f.generation))

\* render_dmabuf: import_ok is the answer eglCreateImageKHR would give for valid descriptors
render_dmabuf(r, f, import_ok) ==
    IF ~r.has_dmabuf THEN [rend |-> r] @@ NoDraw
    ELSE IF r.dmabuf_tested /\ ~r.dmabuf_works THEN [rend |-> r] @@ NoDraw
    ELSE LET \* the rest of the call, given the entry cg that cache_get returned
             AfterGet(cg) ==
                 LET ce == cg.cache[cg.idx]
                     r1 == [r EXCEPT !.cache = cg.cache]
                 IN IF ce.image = NoImage
                    THEN IF ~r.has_modifiers /\ f.nonlinear
                         THEN [rend |-> [r1 EXCEPT !.dmabuf_tested = TRUE,
                                                   !.dmabuf_works = FALSE,
                                                   !.cache[cg.idx].surface_id = 0]] @@ NoDraw
                         ELSE IF ~(import_ok /\ f.fd >= 0)
                         THEN [rend |-> [r1 EXCEPT !.dmabuf_tested = TRUE,
                                                   !.dmabuf_works = FALSE,
                                                   !.cache[cg.idx].surface_id = 0],
                               ok |-> FALSE, import_called |-> TRUE, image |-> NoImage]
                         ELSE LET img == <<f.surface_id, f.generation>>
                              IN [rend |-> [r1 EXCEPT !.dmabuf_tested = TRUE,
                                                      !.dmabuf_works = IF r.dmabuf_tested
                                                                       THEN r.dmabuf_works ELSE TRUE,
                                                      !.cache[cg.idx].image = img,
                                                      !.cache[cg.idx].last_use = r.frame_count],
                                  ok |-> TRUE, import_called |-> TRUE, image |-> img]
                    ELSE [rend |-> [r1 EXCEPT !.cache[cg.idx].last_use = r.frame_count],
                          ok |-> TRUE, import_called |-> FALSE, image |-> ce.image]
         IN AfterGet(cache_get(r.cache, f.surface_id, f.generation))

\* the size of the video's frames (frame->width, frame->height)
VideoWidth == 4
VideoHeight == 2

NoStorage == <<0, 0>>

\* render_software, the two textures: glTexImage2D gives a texture object its storage,
\* glTexSubImage2D writes the rows; tex_y and tex_uv are the sizes of the storage the
\* renderer's texture objects have, prev_uv the statics prev_uv_w and prev_uv_h
render_software(r, w, h) ==
    LET uv == <<w \div 2, h \div 2>>
        y_alloc == ~r.tex_allocated \/ r.tex_w # w \/ r.tex_h # h
        uv_alloc == r.prev_uv # uv
        r1 == IF y_alloc
              THEN [r EXCEPT !.tex_y = <<w, h>>, !.tex_w = w, !.tex_h = h,
                             !.tex_allocated = TRUE]
              ELSE r
        r2 == IF uv_alloc THEN [r1 EXCEPT !.tex_uv = uv, !.prev_uv = uv] ELSE r1
    IN [rend |-> r2, y_alloc |-> y_alloc, uv_alloc |-> uv_alloc,
        y_ready |-> r2.tex_y = <<w, h>>, uv_ready |-> r2.tex_uv = uv]

\* no software upload in this draw
NoUpload == [y_alloc |-> FALSE, uv_alloc |-> FALSE, y_ready |-> TRUE, uv_ready |-> TRUE]

\* a renderer_draw that takes the zero-copy path for every hardware frame
renderer_draw_ignore_try(r, f, try_dmabuf, import_ok) ==
    LET r0 == [r EXCEPT !.frame_count = r.frame_count + 1]
        AfterDmabuf(d) ==
            LET software == ~d.ok /\ f.sw_available
                up == IF software THEN render_software(d.rend, VideoWidth, VideoHeight)
                      ELSE [rend |-> d.rend] @@ NoUpload
            IN [rend |-> up.rend,
                ok |-> d.ok,
                import_called |-> d.import_called,
                image |-> d.image,
                software |-> software,
                upload |-> [y_alloc |-> up.y_alloc, uv_alloc |-> up.uv_alloc,
                            y_ready |-> up.y_ready, uv_ready |-> up.uv_ready]]
    IN AfterDmabuf(IF f.type = "HW"
                   THEN render_dmabuf(r0, f, import_ok)
                   ELSE [rend |-> r0] @@ NoDraw)

\* renderer_draw: which path drew, and the renderer after the call
renderer_draw(r, f, try_dmabuf, import_ok) ==
    LET r0 == [r EXCEPT !.frame_count = r.frame_count + 1]
        \* render_software runs when the zero-copy path d did not draw
        AfterDmabuf(d) ==
            LET software == ~d.ok /\ f.sw_available
                up == IF software THEN render_software(d.rend, VideoWidth, VideoHeight)
                      ELSE [rend |-> d.rend] @@ NoUpload
            IN [rend |-> up.rend,
                ok |-> d.ok,
                import_called |-> d.import_called,
                image |-> d.image,
                software |-> software,
                upload |-> [y_alloc |-> up.y_alloc, uv_alloc |-> up.uv_alloc,
                            y_ready |-> up.y_ready, uv_ready |-> up.uv_ready]]
    IN AfterDmabuf(IF try_dmabuf /\ f.type = "HW"
                   THEN render_dmabuf(r0, f, import_ok)
                   ELSE [rend |-> r0] @@ NoDraw)

\* a modifier is 2 * ModHalfBits bits wide; its upper quarter is zero in
\* DRM_FORMAT_MOD_INVALID and holds the vendor in every other non-linear modifier
DRM_FORMAT_MOD_INVALID == Pow2(2 * ModHalfBits - 2) - 1
ModTiled == Pow2(2 * ModHalfBits - 2) + 1

\* render_dmabuf, the attribute list: whether eglCreateImageKHR is called (the modifier
\* check passes) and the fourcc and the per-plane attributes it is called with
egl_image_attributes(has_modifiers, d) ==
    LET mod == [i \in 1..4 |-> IF d.modifier[i] = DRM_FORMAT_MOD_INVALID
                               THEN DRM_FORMAT_MOD_LINEAR ELSE d.modifier[i]]
        plane(i) == [fd |-> d.fd[i], offset |-> d.offset[i], pitch |-> d.stride[i],
                     modifier |-> IF has_modifiers
                                  THEN <<mod[i] % Pow2(ModHalfBits),
                                         mod[i] \div Pow2(ModHalfBits)>>
                                  ELSE <<>>]
    IN IF \E p \in 1..d.num_planes : ~has_modifiers /\ mod[p] # DRM_FORMAT_MOD_LINEAR
       THEN [called |-> FALSE, fourcc |-> 0, planes |-> <<>>]
       ELSE [called |-> TRUE, fourcc |-> d.fourcc,
             planes |-> IF d.num_planes > 1 /\ d.fd[2] >= 0
                        THEN <<plane(1), plane(2)>>
                        ELSE <<plane(1)>>]

\* renderer_create_output
renderer_create_output(out, egl_ok) ==
    IF egl_ok
    THEN [ret |-> 0, out |-> [out EXCEPT !.egl_window = TRUE, !.egl_surface = TRUE]]
    ELSE [ret |-> -1, out |-> [out EXCEPT !.egl_window = FALSE]]

\* a renderer_destroy_output that destroys the EGL surface and keeps the wl_egl_window
renderer_destroy_output_keep_window(out) ==
    [out EXCEPT !.egl_surface = FALSE]

\* renderer_destroy_output
renderer_destroy_output(out) ==
    [out EXCEPT !.egl_surface = FALSE, !.egl_window = FALSE]

\* renderer_init: a calloc'ed Renderer with the display's capabilities
RendererCaps == {<<FALSE, FALSE>>, <<TRUE, FALSE>>, <<TRUE, TRUE>>}

renderer_init(caps) ==
    [alive |-> TRUE, has_dmabuf |-> caps[1], has_modifiers |-> caps[2],
     dmabuf_tested |-> FALSE, dmabuf_works |-> FALSE, frame_count |-> 0,
     tex_allocated |-> FALSE, tex_w |-> 0, tex_h |-> 0,
     tex_y |-> NoStorage, tex_uv |-> NoStorage, prev_uv |-> NoStorage,
     cache |-> [i \in CacheIdx |-> EmptyEntry]]

\* renderer_reset_dmabuf_state (declared in wlvideo.h, called by reset_renderer)
renderer_reset_dmabuf_state(r) ==
    [r EXCEPT !.dmabuf_tested = FALSE, !.dmabuf_works = FALSE]

\* renderer_reset_texture_state (declared in wlvideo.h, called by reset_renderer)
renderer_reset_texture_state(r) ==
    [r EXCEPT !.tex_allocated = FALSE, !.tex_w = 0, !.tex_h = 0]


\* ================= wayland.c =================

Pending(st) == st \in {"PENDING_DESTROY", "PENDING_RECREATE", "DEFUNCT"}

\* layer_configure (after the ack)
layer_configure(out, w, h) ==
    IF Pending(out.state) THEN out
    ELSE LET size_changed == out.configured_width # w \/ out.configured_height # h
             first_configure == out.state = "UNCONFIGURED"
         IN IF ~size_changed /\ ~first_configure THEN out
            ELSE [out EXCEPT !.configured_width = w, !.configured_height = h,
                             !.width = w, !.height = h,
                             !.state = IF first_configure THEN "READY" ELSE out.state]

\* a layer_configure that resizes the window on every configure it does not ignore
layer_configure_resized_always(out, w, h) ==
    ~Pending(out.state) /\ out.egl_window

\* layer_configure: whether wl_egl_window_resize is called
layer_configure_resized(out, w, h) ==
    /\ ~Pending(out.state)
    /\ (out.configured_width # w \/ out.configured_height # h) \/ out.state = "UNCONFIGURED"
    /\ out.egl_window

\* if (out->frame_callback) wl_callback_destroy: the callback object is gone, its done
\* event may still be on its way
destroy_callback(out) ==
    IF out.frame_callback
    THEN [out EXCEPT !.frame_callback = FALSE, !.callbacks = @ - 1, !.orphaned = TRUE]
    ELSE out

\* a layer_closed without the check for an output that is already being destroyed
layer_closed_unguarded(out, renderer_alive) ==
    [out |-> [destroy_callback(IF renderer_alive THEN renderer_destroy_output(out) ELSE out)
                 EXCEPT !.state = "PENDING_DESTROY"],
     reset |-> TRUE]

\* a layer_closed that destroys the layer surface and the wl_surface inside the handler
layer_closed_synchronous(out, renderer_alive) ==
    IF Pending(out.state) THEN [out |-> out, reset |-> FALSE]
    ELSE [out |-> [destroy_callback(IF renderer_alive THEN renderer_destroy_output(out)
                                    ELSE out)
                      EXCEPT !.layer_surface = FALSE,
                             !.surface = FALSE, !.state = "PENDING_RECREATE"],
          reset |-> TRUE]

\* layer_closed: the output after the event, and whether a renderer reset is requested
layer_closed(out, renderer_alive) ==
    IF Pending(out.state) THEN [out |-> out, reset |-> FALSE]
    ELSE [out |-> [destroy_callback(IF renderer_alive THEN renderer_destroy_output(out)
                                    ELSE out)
                      EXCEPT !.state = "PENDING_DESTROY"],
          reset |-> TRUE]

\* output_mode with WL_OUTPUT_MODE_CURRENT
output_mode(out, w, h) ==
    [out EXCEPT !.width = w, !.height = h]

\* a frame_done that treats every done event as the one of the active callback
frame_done_any(out, cb) ==
    [out EXCEPT !.frame_callback = FALSE, !.callbacks = @ - 1,
                !.state = IF out.state = "WAITING_CALLBACK" THEN "READY" ELSE out.state]

\* frame_done: cb is "active" if the event's callback is out->frame_callback, "orphan" if
\* it is a callback that was destroyed before its event arrived
frame_done(out, cb) ==
    IF out.frame_callback /\ cb = "active"
    THEN [out EXCEPT !.frame_callback = FALSE, !.callbacks = @ - 1,
                     !.state = IF out.state = "WAITING_CALLBACK" THEN "READY" ELSE out.state]
    ELSE out

\* a wayland_request_frame that leaves the output READY
wayland_request_frame_keep_state(out, frame_ok) ==
    IF ~out.surface THEN out
    ELSE IF Pending(out.state) THEN out
    ELSE IF ~frame_ok THEN destroy_callback(out)
    ELSE [destroy_callback(out) EXCEPT !.frame_callback = TRUE, !.callbacks = @ + 1]

\* wayland_request_frame: frame_ok is whether wl_surface_frame returns a callback
wayland_request_frame(out, frame_ok) ==
    IF ~out.surface THEN out
    ELSE IF Pending(out.state) THEN out
    ELSE IF ~frame_ok THEN destroy_callback(out)
    ELSE [destroy_callback(out) EXCEPT !.frame_callback = TRUE, !.callbacks = @ + 1,
                                       !.state = "WAITING_CALLBACK"]

\* wayland_create_surface
wayland_create_surface(out, wl_ok) ==
    IF out.state # "UNCONFIGURED" /\ out.state # "PENDING_RECREATE"
    THEN [ret |-> -1, out |-> out]
    ELSE IF ~wl_ok THEN [ret |-> -1, out |-> out]
    ELSE [ret |-> 0,
          out |-> [out EXCEPT !.surface = TRUE, !.layer_surface = TRUE,
                              !.configured_width = 0, !.configured_height = 0,
                              !.state = "UNCONFIGURED"]]

\* wayland_destroy_surface
wayland_destroy_surface(out) ==
    [destroy_callback(out) EXCEPT !.layer_surface = FALSE, !.surface = FALSE,
                !.egl_window = FALSE, !.egl_surface = FALSE,
                !.configured_width = 0, !.configured_height = 0,
                !.state = "PENDING_RECREATE"]

\* ================= main.c =================

\* any_output_ready
any_output_ready(os) == \E o \in Outs : os[o].state = "READY"

\* output_matches_filter
output_matches_filter(out, output_name) ==
    output_name = "*" \/ out.name = output_name

\* process_output_lifecycle: the output's announced size and name allow a new surface
output_info_complete(out, output_name) ==
    /\ out.width > 0 /\ out.height > 0
    /\ out.name # ""
    /\ output_matches_filter(out, output_name)

\* what the windowing system and EGL answer while one output is processed:
\* all goes well and the configure arrives in the roundtrip, or one of the three fails
NormalFate(out) == [wl_ok |-> TRUE, cfg |-> <<out.width, out.height>>, egl_ok |-> TRUE]

FatesFor(out, output_name) ==
    IF (out.state \in {"PENDING_DESTROY", "PENDING_RECREATE"}
           /\ output_info_complete(out, output_name))
       \/ (out.state \in {"READY", "WAITING_CALLBACK"} /\ ~out.egl_surface)
    THEN {NormalFate(out),
          [NormalFate(out) EXCEPT !.wl_ok = FALSE],
          [NormalFate(out) EXCEPT !.cfg = <<>>],
          [NormalFate(out) EXCEPT !.egl_ok = FALSE]}
    ELSE {NormalFate(out)}

FateCost(out, fate) == IF fate = NormalFate(out) THEN 0 ELSE 1

\* the sum of f over the outputs
RECURSIVE SumOver(_, _)
SumOver(S, f) ==
    IF S = {} THEN 0
    ELSE LET x == CHOOSE y \in S : TRUE IN f[x] + SumOver(S \ {x}, f)

\* a loop body that recreates the surface whatever the output has announced
process_output_any_info(out, renderer_alive, output_name, fate) ==
    LET s1 == IF out.state = "PENDING_DESTROY" THEN wayland_destroy_surface(out) ELSE out
        cr == wayland_create_surface(s1, fate.wl_ok)
        rt == IF fate.cfg # <<>> THEN layer_configure(cr.out, fate.cfg[1], fate.cfg[2])
              ELSE cr.out
        eg == renderer_create_output(rt, fate.egl_ok)
        s2 == IF s1.state = "PENDING_RECREATE"
              THEN IF cr.ret = 0
                   THEN IF rt.state = "READY"
                        THEN IF renderer_alive /\ eg.ret = 0
                             THEN [out |-> eg.out, recreated |-> TRUE]
                             ELSE [out |-> wayland_destroy_surface(
                                              IF renderer_alive THEN eg.out ELSE rt),
                                   recreated |-> FALSE]
                        ELSE [out |-> rt, recreated |-> FALSE]
                   ELSE [out |-> s1, recreated |-> FALSE]
              ELSE [out |-> s1, recreated |-> FALSE]
        o2 == s2.out
        eg2 == renderer_create_output(o2, fate.egl_ok)
    IN IF o2.surface /\ renderer_alive
          /\ o2.state \in {"READY", "WAITING_CALLBACK"} /\ ~o2.egl_surface
       THEN IF eg2.ret = 0
            THEN [out |-> eg2.out, recreated |-> TRUE]
            ELSE [out |-> wayland_destroy_surface(eg2.out), recreated |-> s2.recreated]
       ELSE s2

\* process_output_lifecycle, the loop body for one output
process_output(out, renderer_alive, output_name, fate) ==
    LET s1 == IF out.state = "PENDING_DESTROY" THEN wayland_destroy_surface(out) ELSE out
        cr == wayland_create_surface(s1, fate.wl_ok)
        rt == IF fate.cfg # <<>> THEN layer_configure(cr.out, fate.cfg[1], fate.cfg[2])
              ELSE cr.out
        eg == renderer_create_output(rt, fate.egl_ok)
        s2 == IF s1.state = "PENDING_RECREATE" /\ output_info_complete(s1, output_name)
              THEN IF cr.ret = 0
                   THEN IF rt.state = "READY"
                        THEN IF renderer_alive /\ eg.ret = 0
                             THEN [out |-> eg.out, recreated |-> TRUE]
                             ELSE [out |-> wayland_destroy_surface(
                                              IF renderer_alive THEN eg.out ELSE rt),
                                   recreated |-> FALSE]
                        ELSE [out |-> rt, recreated |-> FALSE]
                   ELSE [out |-> s1, recreated |-> FALSE]
              ELSE [out |-> s1, recreated |-> FALSE]
        o2 == s2.out
        eg2 == renderer_create_output(o2, fate.egl_ok)
    IN IF o2.surface /\ renderer_alive
          /\ o2.state \in {"READY", "WAITING_CALLBACK"} /\ ~o2.egl_surface
       THEN IF eg2.ret = 0
            THEN [out |-> eg2.out, recreated |-> TRUE]
            ELSE [out |-> wayland_destroy_surface(eg2.out), recreated |-> s2.recreated]
       ELSE s2

\* a renderer reset that leaves the decoder's surface generation as it is
reset_renderer_same_generation(a, r, d, os, init_ok, caps, egl) ==
    LET os1 == IF r.alive THEN [o \in Outs |-> renderer_destroy_output(os[o])] ELSE os
    IN IF ~init_ok
       THEN [ok |-> FALSE, app |-> a, rend |-> [r EXCEPT !.alive = FALSE],
             dec |-> d, outs |-> os1]
       ELSE LET \* the statics of render_software are not part of the Renderer
                r1 == [renderer_reset_texture_state(renderer_reset_dmabuf_state(
                          renderer_clear_cache(renderer_init(caps))))
                         EXCEPT !.prev_uv = r.prev_uv]
                os2 == [o \in Outs |->
                          IF os1[o].surface /\ os1[o].state \in {"READY", "WAITING_CALLBACK"}
                          THEN LET c == renderer_create_output(os1[o], egl[o])
                               IN IF c.ret = 0 THEN c.out
                                  ELSE wayland_destroy_surface(c.out)
                          ELSE os1[o]]
            IN [ok |-> TRUE,
                app |-> [a EXCEPT !.render_path_determined = FALSE,
                                  !.renderer_needs_reset = FALSE],
                rend |-> r1, dec |-> d, outs |-> os2]

\* reset_renderer: init_ok, caps and egl are what renderer_init and eglCreateWindowSurface answer
reset_renderer(a, r, d, os, init_ok, caps, egl) ==
    LET os1 == IF r.alive THEN [o \in Outs |-> renderer_destroy_output(os[o])] ELSE os
    IN IF ~init_ok
       THEN [ok |-> FALSE, app |-> a, rend |-> [r EXCEPT !.alive = FALSE],
             dec |-> d, outs |-> os1]
       ELSE LET \* the statics of render_software are not part of the Renderer
                r1 == [renderer_reset_texture_state(renderer_reset_dmabuf_state(
                          renderer_clear_cache(renderer_init(caps))))
                         EXCEPT !.prev_uv = r.prev_uv]
                d1 == decoder_increment_generation(d)
                os2 == [o \in Outs |->
                          IF os1[o].surface /\ os1[o].state \in {"READY", "WAITING_CALLBACK"}
                          THEN LET c == renderer_create_output(os1[o], egl[o])
                               IN IF c.ret = 0 THEN c.out
                                  ELSE wayland_destroy_surface(c.out)
                          ELSE os1[o]]
            IN [ok |-> TRUE,
                app |-> [a EXCEPT !.render_path_determined = FALSE,
                                  !.renderer_needs_reset = FALSE],
                rend |-> r1, dec |-> d1, outs |-> os2]

\* a reaction to recreated surfaces that leaves the image cache as it is
after_lifecycle_keep_cache(a, r, f, open, have, surfaces_recreated) ==
    IF ~surfaces_recreated
    THEN [app |-> a, rend |-> r, frame |-> f, open |-> open, have_frame |-> have]
    ELSE LET c == IF have /\ f.type = "HW" THEN decoder_close_dmabuf(f, open)
                  ELSE [frame |-> f, open |-> open]
         IN [app |-> a, rend |-> r,
             frame |-> c.frame, open |-> c.open, have_frame |-> FALSE]

\* a reaction to recreated surfaces that also makes the render path undetermined
after_lifecycle_redetermine(a, r, f, open, have, surfaces_recreated) ==
    IF ~surfaces_recreated
    THEN [app |-> a, rend |-> r, frame |-> f, open |-> open, have_frame |-> have]
    ELSE LET c == IF have /\ f.type = "HW" THEN decoder_close_dmabuf(f, open)
                  ELSE [frame |-> f, open |-> open]
         IN [app |-> [a EXCEPT !.render_path_determined = FALSE],
             rend |-> renderer_clear_cache(r),
             frame |-> c.frame, open |-> c.open, have_frame |-> FALSE]

\* if (surfaces_recreated): clear the image cache, release the current frame
after_lifecycle(a, r, f, open, have, surfaces_recreated) ==
    IF ~surfaces_recreated
    THEN [app |-> a, rend |-> r, frame |-> f, open |-> open, have_frame |-> have]
    ELSE LET c == IF have /\ f.type = "HW" THEN decoder_close_dmabuf(f, open)
                  ELSE [frame |-> f, open |-> open]
         IN [app |-> a, rend |-> renderer_clear_cache(r),
             frame |-> c.frame, open |-> c.open, have_frame |-> FALSE]

\* the playback clock: double elapsed = t - start_time; target = (int64_t)(elapsed / frame_duration)
clock_target(now, start_time) == TruncDiv(RoundD(now - start_time), FrameDur)

\* a pacing reset that restarts the clock at the current time
pacing_reset_to_now(start_time, now, displayed, tgt) ==
    IF tgt - displayed > reset_threshold THEN now ELSE start_time

\* the pacing reset after the catch-up loop
pacing_reset(start_time, now, displayed, tgt) ==
    IF tgt - displayed > reset_threshold
    THEN RoundD(now - RoundD(displayed * FrameDur))
    ELSE start_time

\* a catch-up loop that always asks for the CPU copy
need_sw_copy_always(a, d) == TRUE

\* bool need_sw of the catch-up loop
need_sw_copy(a, d) == ~a.render_path_determined \/ ~a.use_dmabuf_path \/ d.nvidia

\* a loop condition without the per-iteration bound
catchup_continues_unbounded(displayed, tgt, n) == displayed < tgt

\* while (displayed_frame < target && decoded < max_skip)
catchup_continues(displayed, tgt, n) == displayed < tgt /\ n < max_skip

\* an iteration that keeps a skipped frame's descriptors open
catchup_iteration_keep_open(L, o) ==
    LET \* the rest of the iteration, given the result g of decoder_get_frame
        AfterDecode(g) ==
            LET L1 == [L EXCEPT !.dec = g.dec, !.frame = g.frame, !.open = g.open]
            IN IF ~g.ok
               THEN IF L.app.loop
                    THEN LET s == decoder_seek_start(g.dec, o.seek_ok)
                         IN IF s.ret < 0
                            THEN [L1 EXCEPT !.app.running = FALSE, !.next = "break"]
                            ELSE [L1 EXCEPT !.dec = s.dec,
                                            !.rend = renderer_clear_cache(L.rend),
                                            !.app.start_time = L.t,
                                            !.displayed_frame = -1,
                                            !.target = 0,
                                            !.next = "loop"]
                    ELSE [L1 EXCEPT !.app.running = FALSE, !.next = "break"]
               ELSE LET L2 == [L1 EXCEPT !.have_frame = TRUE,
                                         !.displayed_frame = L.displayed_frame + 1,
                                         !.decoded = L.decoded + 1]
                    IN IF L2.displayed_frame >= L2.target
                       THEN [L2 EXCEPT !.next = "break"]
                       ELSE [L2 EXCEPT !.next = "loop"]
    IN AfterDecode(decoder_get_frame(L.dec, L.frame, L.open, need_sw_copy(L.app, L.dec), o))

\* an iteration whose loop restart leaves the image cache as it is
catchup_iteration_keep_cache(L, o) ==
    LET \* the rest of the iteration, given the result g of decoder_get_frame
        AfterDecode(g) ==
            LET L1 == [L EXCEPT !.dec = g.dec, !.frame = g.frame, !.open = g.open]
            IN IF ~g.ok
               THEN IF L.app.loop
                    THEN LET s == decoder_seek_start(g.dec, o.seek_ok)
                         IN IF s.ret < 0
                            THEN [L1 EXCEPT !.app.running = FALSE, !.next = "break"]
                            ELSE [L1 EXCEPT !.dec = s.dec,
                                            !.app.start_time = L.t,
                                            !.displayed_frame = -1,
                                            !.target = 0,
                                            !.next = "loop"]
                    ELSE [L1 EXCEPT !.app.running = FALSE, !.next = "break"]
               ELSE LET L2 == [L1 EXCEPT !.have_frame = TRUE,
                                         !.displayed_frame = L.displayed_frame + 1,
                                         !.decoded = L.decoded + 1]
                    IN IF L2.displayed_frame >= L2.target
                       THEN [L2 EXCEPT !.next = "break"]
                       ELSE IF L2.frame.type = "HW"
                            THEN LET c == decoder_close_dmabuf(L2.frame, L2.open)
                                 IN [L2 EXCEPT !.frame = c.frame, !.open = c.open, !.next = "loop"]
                            ELSE [L2 EXCEPT !.next = "loop"]
    IN AfterDecode(decoder_get_frame(L.dec, L.frame, L.open, need_sw_copy(L.app, L.dec), o))

\* one iteration of the catch-up loop; L holds the loop's variables
catchup_iteration(L, o) ==
    LET \* the rest of the iteration, given the result g of decoder_get_frame
        AfterDecode(g) ==
            LET L1 == [L EXCEPT !.dec = g.dec, !.frame = g.frame, !.open = g.open]
            IN IF ~g.ok
               THEN IF L.app.loop
                    THEN LET s == decoder_seek_start(g.dec, o.seek_ok)
                         IN IF s.ret < 0
                            THEN [L1 EXCEPT !.app.running = FALSE, !.next = "break"]
                            ELSE [L1 EXCEPT !.dec = s.dec,
                                            !.rend = renderer_clear_cache(L.rend),
                                            !.app.start_time = L.t,
                                            !.displayed_frame = -1,
                                            !.target = 0,
                                            !.next = "loop"]
                    ELSE [L1 EXCEPT !.app.running = FALSE, !.next = "break"]
               ELSE LET L2 == [L1 EXCEPT !.have_frame = TRUE,
                                         !.displayed_frame = L.displayed_frame + 1,
                                         !.decoded = L.decoded + 1]
                    IN IF L2.displayed_frame >= L2.target
                       THEN [L2 EXCEPT !.next = "break"]
                       ELSE IF L2.frame.type = "HW"
                            THEN LET c == decoder_close_dmabuf(L2.frame, L2.open)
                                 IN [L2 EXCEPT !.frame = c.frame, !.open = c.open, !.next = "loop"]
                            ELSE [L2 EXCEPT !.next = "loop"]
    IN AfterDecode(decoder_get_frame(L.dec, L.frame, L.open, need_sw_copy(L.app, L.dec), o))


NoLastOp == [kind |-> "none"]

\* a render loop body that does not look at the output's state
render_output_any_state(a, r, d, f, o, out, frame_ok, import_ok) ==
    IF FALSE
    THEN [app |-> a, rend |-> r, dec |-> d, out |-> out, obs |-> NoLastOp]
    ELSE LET out1 == wayland_request_frame(out, frame_ok)
             try_dmabuf == ~a.render_path_determined \/ a.use_dmabuf_path
             \* the rest of the body, given the result dr of renderer_draw
             AfterDraw(dr) ==
                 LET obs == [kind |-> "draw", out |-> o, pre_state |-> out.state,
                             requested |-> out1.frame_callback,
                             egl |-> out.egl_surface, try_dmabuf |-> try_dmabuf,
                             ok |-> dr.ok, software |-> dr.software,
                             import_called |-> dr.import_called, image |-> dr.image,
                             key |-> <<f.surface_id, f.generation>>, type |-> f.type,
                             sw_available |-> f.sw_available, fd |-> f.fd,
                             upload |-> dr.upload,
                             ring_slot |-> f.ring_slot,
                             ring_intact |-> d.ring[f.ring_slot] = f.sw_stamp,
                             had_sid |-> \E i \in CacheIdx :
                                            /\ r.cache[i].image # NoImage
                                            /\ r.cache[i].surface_id = f.surface_id,
                             was_blocked |-> r.dmabuf_tested /\ ~r.dmabuf_works,
                             was_locked |-> a.render_path_determined /\ a.use_dmabuf_path]
                 IN IF ~dr.ok /\ ~f.sw_available
                    THEN [app |-> a, rend |-> dr.rend, dec |-> d,
                          out |-> [(IF dr.rend.alive THEN renderer_destroy_output(out1) ELSE out1)
                                      EXCEPT !.state = "PENDING_DESTROY"],
                          obs |-> obs]
                    ELSE IF ~a.render_path_determined
                    THEN IF f.type = "HW" /\ try_dmabuf
                         THEN [app |-> [a EXCEPT !.render_path_determined = TRUE,
                                                 !.use_dmabuf_path = dr.ok],
                               rend |-> dr.rend,
                               dec |-> decoder_set_dmabuf_export_result(d, dr.ok),
                               out |-> out1, obs |-> obs]
                         ELSE [app |-> [a EXCEPT !.render_path_determined = TRUE,
                                                 !.use_dmabuf_path = FALSE],
                               rend |-> dr.rend, dec |-> d, out |-> out1, obs |-> obs]
                    ELSE [app |-> a, rend |-> dr.rend, dec |-> d, out |-> out1, obs |-> obs]
         IN AfterDraw(renderer_draw(r, f, try_dmabuf, import_ok))

\* the render loop's body for one output: request a frame, draw, react to the result
render_output(a, r, d, f, o, out, frame_ok, import_ok) ==
    IF out.state # "READY"
    THEN [app |-> a, rend |-> r, dec |-> d, out |-> out, obs |-> NoLastOp]
    ELSE LET out1 == wayland_request_frame(out, frame_ok)
             try_dmabuf == ~a.render_path_determined \/ a.use_dmabuf_path
             \* the rest of the body, given the result dr of renderer_draw
             AfterDraw(dr) ==
                 LET obs == [kind |-> "draw", out |-> o, pre_state |-> out.state,
                             requested |-> out1.frame_callback,
                             egl |-> out.egl_surface, try_dmabuf |-> try_dmabuf,
                             ok |-> dr.ok, software |-> dr.software,
                             import_called |-> dr.import_called, image |-> dr.image,
                             key |-> <<f.surface_id, f.generation>>, type |-> f.type,
                             sw_available |-> f.sw_available, fd |-> f.fd,
                             upload |-> dr.upload,
                             ring_slot |-> f.ring_slot,
                             ring_intact |-> d.ring[f.ring_slot] = f.sw_stamp,
                             had_sid |-> \E i \in CacheIdx :
                                            /\ r.cache[i].image # NoImage
                                            /\ r.cache[i].surface_id = f.surface_id,
                             was_blocked |-> r.dmabuf_tested /\ ~r.dmabuf_works,
                             was_locked |-> a.render_path_determined /\ a.use_dmabuf_path]
                 IN IF ~dr.ok /\ ~f.sw_available
                    THEN [app |-> a, rend |-> dr.rend, dec |-> d,
                          out |-> [(IF dr.rend.alive THEN renderer_destroy_output(out1) ELSE out1)
                                      EXCEPT !.state = "PENDING_DESTROY"],
                          obs |-> obs]
                    ELSE IF ~a.render_path_determined
                    THEN IF f.type = "HW" /\ try_dmabuf
                         THEN [app |-> [a EXCEPT !.render_path_determined = TRUE,
                                                 !.use_dmabuf_path = dr.ok],
                               rend |-> dr.rend,
                               dec |-> decoder_set_dmabuf_export_result(d, dr.ok),
                               out |-> out1, obs |-> obs]
                         ELSE [app |-> [a EXCEPT !.render_path_determined = TRUE,
                                                 !.use_dmabuf_path = FALSE],
                               rend |-> dr.rend, dec |-> d, out |-> out1, obs |-> obs]
                    ELSE [app |-> a, rend |-> dr.rend, dec |-> d, out |-> out1, obs |-> obs]
         IN AfterDraw(renderer_draw(r, f, try_dmabuf, import_ok))

\* ---- initial state: main() has reached the main loop ----

DecoderModes == {"vaapi", "vaapi_nvidia", "cuda", "sw"}

decoder_init(mode, nonlinear) ==
    [hw_vaapi |-> mode \in {"vaapi", "vaapi_nvidia"},
     nvidia |-> mode \in {"vaapi_nvidia", "cuda"},
     dmabuf_export_tested |-> mode = "cuda",
     dmabuf_export_works |-> FALSE,
     surface_generation |-> 0,
     current_ring_slot |-> 0,
     ring |-> [s \in 0..(SW_RING_SIZE - 1) |-> -1],
     sw_seq |-> 0,
     last_exported |-> -1,
     eof |-> FALSE,
     pool_next |-> 0,
     nonlinear |-> nonlinear]

ReadyOutput ==
    [state |-> "READY", surface |-> TRUE, layer_surface |-> TRUE, frame_callback |-> FALSE,
     egl_window |-> TRUE, egl_surface |-> TRUE, width |-> 1, height |-> 1,
     configured_width |-> 1, configured_height |-> 1, name |-> "",
     callbacks |-> 0, orphaned |-> FALSE]

\* an output that got no surface during start-up (filtered out, or creation failed)
InertOutput ==
    [state |-> "UNCONFIGURED", surface |-> FALSE, layer_surface |-> FALSE,
     frame_callback |-> FALSE, egl_window |-> FALSE, egl_surface |-> FALSE,
     width |-> 1, height |-> 1, configured_width |-> 0, configured_height |-> 0,
     name |-> "", callbacks |-> 0, orphaned |-> FALSE]

\* an output whose surface was created at start-up and destroyed again because the
\* configure did not arrive or the EGL surface could not be created
PendingOutput ==
    [InertOutput EXCEPT !.state = "PENDING_RECREATE"]

\* such an output whose current mode the compositor has not announced yet
UnsizedOutput ==
    [PendingOutput EXCEPT !.width = 0, !.height = 0]

\* the --output option and the names the outputs announced: every output or one output
\* selected, and a compositor whose wl_output is older than version 4 and sends no name
OutputNamings ==
    {[output_name |-> "*", names |-> [o \in Outs |-> IF o = FirstOut THEN "DP-1" ELSE "DP-2"]],
     [output_name |-> "DP-1", names |-> [o \in Outs |-> IF o = FirstOut THEN "DP-1" ELSE "DP-2"]],
     [output_name |-> "*", names |-> [o \in Outs |-> ""]]}

\* renderer capabilities and whether the driver's surfaces carry a non-linear modifier
InitEnv == {<<<<FALSE, FALSE>>, FALSE>>, <<<<TRUE, FALSE>>, FALSE>>,
            <<<<TRUE, FALSE>>, TRUE>>, <<<<TRUE, TRUE>>, FALSE>>}

\* Frame frame = {0} with the descriptors set to -1
InitFrame ==
    [type |-> "HW", sw_available |-> FALSE, ring_slot |-> 0, sw_stamp |-> 0, surface_id |-> 0,
     generation |-> 0, fd |-> NoFd, nonlinear |-> FALSE]

Init ==
    /\ pc = "top"
    /\ quit = FALSE
    /\ \E mode \in DecoderModes, env \in InitEnv, first \in 0..(PoolSize - 1) :
         \* frames that never sit on a VA-API surface never reach the import
         /\ mode \in {"cuda", "sw"} => env = <<<<TRUE, TRUE>>, FALSE>>
         \* the driver chooses the surface identities: the first frame sits on surface 0,
         \* or on another one where the import is rejected for its modifier
         /\ first # 0 => mode = "vaapi" /\ env = <<<<TRUE, FALSE>>, TRUE>>
         /\ dec = [decoder_init(mode, env[2]) EXCEPT !.pool_next = first]
         /\ rend = renderer_init(env[1])
    /\ \E second \in {InertOutput, ReadyOutput, PendingOutput, UnsizedOutput},
          naming \in OutputNamings, lp \in BOOLEAN :
         /\ outs = [o \in Outs |-> [(IF o = FirstOut THEN ReadyOutput ELSE second)
                                       EXCEPT !.name = naming.names[o]]]
         \* an output the filter rejects got no surface during start-up
         /\ second # InertOutput => output_matches_filter(outs[LastOut], naming.output_name)
         \* names and sizes matter to the lifecycle alone: a filter, missing names and a
         \* missing mode are played with the software decoder, without looping; two
         \* surfaces otherwise with the VA-API decoder on a renderer with modifiers
         /\ IF naming.output_name # "*" \/ naming.names[FirstOut] = ""
               \/ second = UnsizedOutput
            THEN ~dec.hw_vaapi /\ ~dec.nvidia /\ ~lp
            ELSE second # InertOutput =>
                    dec.hw_vaapi /\ ~dec.nvidia /\ rend.has_modifiers /\ ~dec.nonlinear
         /\ app = [running |-> TRUE, renderer_needs_reset |-> FALSE, clock_started |-> FALSE,
                start_time |-> 0, loop |-> lp, output_name |-> naming.output_name,
                use_dmabuf_path |-> decoder_dmabuf_export_supported(dec),
                render_path_determined |-> ~decoder_dmabuf_export_supported(dec)]
    /\ t = 0
    /\ displayed_frame = -1
    /\ target = 0
    /\ decoded = 0
    /\ have_frame = FALSE
    /\ frame = InitFrame
    /\ cursor = FirstOut
    /\ open_fds = {}
    /\ last_op = NoLastOp
    /\ faults = 0
    /\ tick_displayed = -1
    /\ paced = "no"
    /\ tick_calls = 0
    /\ reset_gen = -1
    /\ fatal = "none"
    /\ exit_code = <<>>
    /\ dmabuf = <<>>
    /\ egl_attr = <<>>

\* ---- one import of one exported frame ----

\* what export_vaapi_dmabuf can record for a plane: the descriptor it took or
\* duplicated (or -1 when the layer names no object), offset, pitch and the
\* object's modifier
ExportedPlanes ==
    {[fd |-> 5, offset |-> 0, stride |-> 64, modifier |-> DRM_FORMAT_MOD_LINEAR],
     [fd |-> 6, offset |-> 32, stride |-> 64, modifier |-> DRM_FORMAT_MOD_LINEAR],
     [fd |-> 6, offset |-> 32, stride |-> 32, modifier |-> ModTiled],
     [fd |-> 7, offset |-> 0, stride |-> 32, modifier |-> DRM_FORMAT_MOD_INVALID],
     [fd |-> NoFd, offset |-> 0, stride |-> 32, modifier |-> DRM_FORMAT_MOD_INVALID]}

\* the DmaBuf export_vaapi_dmabuf leaves in the Frame: num_planes planes from the
\* descriptor, the other slots as the memset and the -1 / INVALID loop left them
DmaBufOf(ps) ==
    [num_planes |-> Len(ps),
     fourcc     |-> 1,
     fd         |-> [i \in 1..4 |-> IF i <= Len(ps) THEN ps[i].fd ELSE NoFd],
     offset     |-> [i \in 1..4 |-> IF i <= Len(ps) THEN ps[i].offset ELSE 0],
     stride     |-> [i \in 1..4 |-> IF i <= Len(ps) THEN ps[i].stride ELSE 0],
     modifier   |-> [i \in 1..4 |-> IF i <= Len(ps) THEN ps[i].modifier
                                   ELSE DRM_FORMAT_MOD_INVALID]]

DmaBufs == {DmaBufOf(ps) : ps \in UNION {[1..n -> ExportedPlanes] : n \in 1..4}}

ImportInit ==
    /\ pc = "render_dmabuf"
    /\ dmabuf \in DmaBufs
    /\ rend \in {renderer_init(caps) : caps \in {<<TRUE, FALSE>>, <<TRUE, TRUE>>}}
    /\ egl_attr = <<>>
    /\ quit = FALSE
    /\ app = <<>>
    /\ dec = <<>>
    /\ outs = <<>>
    /\ frame = InitFrame
    /\ t = 0
    /\ displayed_frame = -1
    /\ target = 0
    /\ decoded = 0
    /\ have_frame = TRUE
    /\ cursor = FirstOut
    /\ open_fds = {}
    /\ last_op = NoLastOp
    /\ faults = 0
    /\ tick_displayed = -1
    /\ paced = "no"
    /\ tick_calls = 0
    /\ reset_gen = -1
    /\ fatal = "none"
    /\ exit_code = <<>>

\* render_dmabuf on a cache miss: build the attributes and call eglCreateImageKHR
ImportCall ==
    /\ pc = "render_dmabuf"
    /\ egl_attr' = egl_image_attributes(rend.has_modifiers, dmabuf)
    /\ pc' = "imported"
    /\ UNCHANGED <<quit, app, t, displayed_frame, target, decoded, have_frame, frame,
                   dec, rend, outs, cursor, open_fds, last_op, faults, dmabuf>>
    /\ UNCHANGED ghosts
    /\ UNCHANGED exits

ImportNext == ImportCall

ImportSpec == ImportInit /\ [][ImportNext]_vars

\* ---- one export of one decoded surface, then decoder_close_dmabuf twice ----

MaxObjects == 3
MaxLayers == 3

\* the object indexes of the planes of one layer; the last is beyond MaxObjects objects
LayerShapes == {<<0>>, <<1>>, <<0, 0>>, <<0, 1>>, <<2, 2>>, <<MaxObjects>>}

SurfaceLayers == UNION {[1..n -> LayerShapes] : n \in 0..MaxLayers}

ExportInit ==
    /\ pc = "export"
    /\ \E n \in 0..MaxObjects, ls \in SurfaceLayers :
          last_op = [kind |-> "va_desc", num_objects |-> n, layers |-> ls]
    /\ dmabuf = [fd |-> [i \in 1..4 |-> NoFd], num_planes |-> 0]
    /\ open_fds = {}
    /\ egl_attr = <<>>
    /\ rend = <<>>
    /\ quit = FALSE
    /\ app = <<>>
    /\ dec = <<>>
    /\ outs = <<>>
    /\ frame = InitFrame
    /\ t = 0
    /\ displayed_frame = -1
    /\ target = 0
    /\ decoded = 0
    /\ have_frame = FALSE
    /\ cursor = FirstOut
    /\ faults = 0
    /\ tick_displayed = -1
    /\ paced = "no"
    /\ tick_calls = 0
    /\ reset_gen = -1
    /\ fatal = "none"
    /\ exit_code = <<>>

\* vaExportSurfaceHandle returns one open descriptor per object, then the plane loops
\* and the closing of the unused objects
ExportSurface ==
    /\ pc = "export"
    /\ \E dup_ok \in BOOLEAN :
         LET objects == [i \in 1..last_op.num_objects |-> 2 + i]
         IN \E ex \in {export_vaapi_dmabuf_fds(objects, last_op.layers,
                                                {objects[i] : i \in 1..Len(objects)},
                                                dup_ok)} :
              /\ dmabuf' = ex.dmabuf
              /\ open_fds' = ex.open
              /\ last_op' = [kind |-> "export", ok |-> ex.ok, objects |-> objects,
                             planes |-> FlatPlanes(last_op.layers), dup_ok |-> dup_ok,
                             taken |-> ex.taken]
    /\ pc' = "exported"
    /\ UNCHANGED <<quit, app, t, displayed_frame, target, decoded, have_frame, frame,
                   dec, rend, outs, cursor, faults, egl_attr>>
    /\ UNCHANGED ghosts
    /\ UNCHANGED exits

\* decoder_close_dmabuf on the Frame's DmaBuf, the first and the second time
CloseDmabuf ==
    /\ pc \in {"exported", "closed"}
    /\ \E c \in {decoder_close_dmabuf_fds(dmabuf.fd, open_fds, 1)} :
         /\ dmabuf' = [dmabuf EXCEPT !.fd = c.fd]
         /\ open_fds' = c.open
         /\ last_op' = [kind |-> "close_dmabuf", closed |-> c.closed, bad |-> c.bad,
                        owned |-> {dmabuf.fd[i] : i \in 1..4} \ {NoFd},
                        open_before |-> open_fds]
    /\ pc' = IF pc = "exported" THEN "closed" ELSE "closed_again"
    /\ UNCHANGED <<quit, app, t, displayed_frame, target, decoded, have_frame, frame,
                   dec, rend, outs, cursor, faults, egl_attr>>
    /\ UNCHANGED ghosts
    /\ UNCHANGED exits

ExportNext == ExportSurface \/ CloseDmabuf

ExportSpec == ExportInit /\ [][ExportNext]_vars

\* ---- cache_get on the caches a renderer can hold ----

\* the orders in which the slots were last used
CacheOrders ==
    {[i \in CacheIdx |-> i + 1],
     [i \in CacheIdx |-> EGL_CACHE_SIZE - i],
     [i \in CacheIdx |-> ((i + 3) % EGL_CACHE_SIZE) + 1]}

\* the entry of slot i after surface i + 1 was imported into it
CachedEntry(i, order) ==
    [surface_id |-> i + 1, generation |-> 10 + i, image |-> <<i + 1, 10 + i>>,
     last_use |-> order[i]]

\* the entry of slot i after the surface whose VASurfaceID is 0 was imported into it
SurfaceZeroEntry(i, order) ==
    [surface_id |-> 0, generation |-> 1, image |-> <<0, 1>>, last_use |-> order[i]]

\* the entry of slot i after renderer_clear_cache
ClearedEntry(i, order) ==
    [surface_id |-> 0, generation |-> 10 + i, image |-> NoImage, last_use |-> order[i]]

\* slots fill from index 0; surface 0 sits in the first slot cache_get finds free, or in
\* any slot of a full cache; the slots behind were never used or were cleared
Caches ==
    {[i \in CacheIdx |-> IF i = zero THEN SurfaceZeroEntry(i, order)
                         ELSE IF i < filled THEN CachedEntry(i, order)
                         ELSE IF cleared THEN ClearedEntry(i, order)
                         ELSE EmptyEntry] :
        <<filled, zero, order, cleared>> \in
            {q \in (0..EGL_CACHE_SIZE) \X (-1..(EGL_CACHE_SIZE - 1)) \X CacheOrders \X BOOLEAN :
                q[2] = -1 \/ q[2] = q[1] \/ q[1] = EGL_CACHE_SIZE}}

\* the surfaces looked up: the one in slot 0, the same surface after one more export,
\* surface 0, and a surface that is in no slot
CacheKeys == {<<1, 10>>, <<1, 11>>, <<0, 1>>, <<9, 20>>}

CacheInit ==
    /\ pc = "cache_get"
    /\ \E c \in Caches :
         rend = [renderer_init(<<TRUE, TRUE>>) EXCEPT !.cache = c,
                                                      !.frame_count = EGL_CACHE_SIZE + 1]
    /\ \E k \in CacheKeys :
         frame = [InitFrame EXCEPT !.surface_id = k[1], !.generation = k[2], !.fd = 3]
    /\ dmabuf = <<>>
    /\ egl_attr = <<>>
    /\ quit = FALSE
    /\ app = <<>>
    /\ dec = <<>>
    /\ outs = <<>>
    /\ t = 0
    /\ displayed_frame = -1
    /\ target = 0
    /\ decoded = 0
    /\ have_frame = TRUE
    /\ cursor = FirstOut
    /\ open_fds = {3}
    /\ last_op = NoLastOp
    /\ faults = 0
    /\ tick_displayed = -1
    /\ paced = "no"
    /\ tick_calls = 0
    /\ reset_gen = -1
    /\ fatal = "none"
    /\ exit_code = <<>>

\* render_dmabuf's call of cache_get for the frame
CacheGet ==
    /\ pc = "cache_get"
    /\ \E cg \in {cache_get(rend.cache, frame.surface_id, frame.generation)} :
         /\ rend' = [rend EXCEPT !.cache = cg.cache]
         /\ last_op' = [kind |-> "cache_get", idx |-> cg.idx, destroyed |-> cg.destroyed,
                        hit |-> CacheFind(rend.cache, frame.surface_id, frame.generation, 0) >= 0,
                        had_free |-> \E j \in CacheIdx : rend.cache[j].surface_id = 0]
    /\ pc' = "cache_got"
    /\ UNCHANGED <<quit, app, t, displayed_frame, target, decoded, have_frame, frame,
                   dec, outs, cursor, open_fds, faults>>
    /\ UNCHANGED ghosts
    /\ UNCHANGED exits
    /\ UNCHANGED import_io

CacheNext == CacheGet

CacheSpec == CacheInit /\ [][CacheNext]_vars

\* ---- the main loop ----

\* handle_signal; quit is read only by the loop condition, so a signal that arrives
\* anywhere in an iteration acts like one that arrives while the loop waits in poll
Signal ==
    /\ pc = "poll"
    /\ ~quit
    /\ quit' = TRUE
    /\ last_op' = NoLastOp
    /\ UNCHANGED ghosts
    /\ UNCHANGED faults
    /\ UNCHANGED <<pc, app, t, displayed_frame, target, decoded, have_frame, frame,
                   dec, rend, outs, cursor, open_fds>>
    /\ UNCHANGED exits
    /\ UNCHANGED import_io

\* while (app.running && !quit): leaving the loop
LoopExit ==
    /\ pc = "top"
    /\ ~(app.running /\ ~quit)
    /\ pc' = "cleanup"
    /\ last_op' = NoLastOp
    /\ UNCHANGED ghosts
    /\ UNCHANGED faults
    /\ UNCHANGED <<quit, app, t, displayed_frame, target, decoded, have_frame, frame,
                   dec, rend, outs, cursor, open_fds>>
    /\ UNCHANGED exits
    /\ UNCHANGED import_io

\* top of an iteration without a pending renderer reset
LoopTop ==
    /\ pc = "top"
    /\ app.running /\ ~quit
    /\ ~app.renderer_needs_reset
    /\ pc' = "lifecycle"
    /\ last_op' = NoLastOp
    /\ UNCHANGED ghosts
    /\ UNCHANGED faults
    /\ UNCHANGED <<quit, app, t, displayed_frame, target, decoded, have_frame, frame,
                   dec, rend, outs, cursor, open_fds>>
    /\ UNCHANGED exits
    /\ UNCHANGED import_io

\* top of an iteration with app.renderer_needs_reset
RendererReset ==
    /\ pc = "top"
    /\ app.running /\ ~quit
    /\ app.renderer_needs_reset
    /\ dec.surface_generation < MaxGen
    /\ \E init_ok \in BOOLEAN, caps \in RendererCaps, egl \in [Outs -> BOOLEAN] :
         LET cost == (IF init_ok THEN 0 ELSE 1)
                     + (IF caps = <<rend.has_dmabuf, rend.has_modifiers>> THEN 0 ELSE 1)
                     + Cardinality({o \in Outs : ~egl[o]})
             hw == have_frame /\ frame.type = "HW"
             c  == IF hw THEN decoder_close_dmabuf(frame, open_fds)
                   ELSE [frame |-> frame, open |-> open_fds]
             rr == reset_renderer(app, rend, dec, outs, init_ok, caps, egl)
         IN /\ frame' = c.frame
            /\ open_fds' = c.open
            /\ have_frame' = IF hw THEN FALSE ELSE have_frame
            /\ app' = rr.app
            /\ rend' = rr.rend
            /\ dec' = rr.dec
            /\ outs' = rr.outs
            /\ pc' = IF rr.ok THEN "lifecycle" ELSE "cleanup"
            /\ fatal' = IF rr.ok THEN fatal ELSE "reset_failed"
            /\ cost <= 1
            /\ init_ok \/ caps = <<rend.has_dmabuf, rend.has_modifiers>>
            /\ \A o \in Outs : ~egl[o] =>
                  outs[o].surface /\ outs[o].state \in {"READY", "WAITING_CALLBACK"}
            /\ faults + cost <= MaxFaults
            /\ faults' = faults + cost
            /\ last_op' = [kind |-> "reset", ok |-> rr.ok,
                           destroyed |-> {o \in Outs : rend.alive /\ outs[o].egl_surface},
                           had_images |-> \E i \in CacheIdx : rend.cache[i].image # NoImage,
                           was_tested |-> rend.dmabuf_tested,
                           was_determined |-> app.render_path_determined]
    /\ reset_gen' = dec.surface_generation
    /\ UNCHANGED <<tick_displayed, paced, tick_calls>>
    /\ UNCHANGED <<quit, t, displayed_frame, target, decoded, cursor>>
    /\ UNCHANGED exit_code
    /\ UNCHANGED import_io

\* process_output_lifecycle and the reaction to recreated surfaces
Lifecycle ==
    /\ pc = "lifecycle"
    /\ \E fate \in [Outs -> UNION {FatesFor(outs[o], app.output_name) : o \in Outs}] :
         LET cost == SumOver(Outs, [o \in Outs |-> FateCost(outs[o], fate[o])])
             res == [o \in Outs |-> process_output(outs[o], rend.alive, app.output_name,
                                                   fate[o])]
             recreated == {o \in Outs : res[o].recreated}
         IN /\ outs' = [o \in Outs |-> res[o].out]
            /\ \E B \in {after_lifecycle(app, rend, frame, open_fds, have_frame,
                                          recreated # {})} :
                  /\ app' = B.app
                  /\ rend' = B.rend
                  /\ frame' = B.frame
                  /\ open_fds' = B.open
                  /\ have_frame' = B.have_frame
            /\ \A o \in Outs : fate[o] \in FatesFor(outs[o], app.output_name)
            /\ faults + cost <= MaxFaults
            /\ faults' = faults + cost
            /\ last_op' = [kind |-> "lifecycle", recreated |-> recreated,
                           closed |-> {o \in Outs : outs[o].state = "PENDING_DESTROY"},
                           failed |-> {o \in Outs : ~fate[o].wl_ok \/ ~fate[o].egl_ok},
                           had_images |-> /\ recreated # {}
                                          /\ \E i \in CacheIdx :
                                                rend.cache[i].image # NoImage]
    /\ pc' = "poll"
    /\ UNCHANGED ghosts
    /\ UNCHANGED <<quit, t, displayed_frame, target, decoded, dec, cursor>>
    /\ UNCHANGED exits
    /\ UNCHANGED import_io

\* wl_display_dispatch_pending delivers a configure event
EvConfigure(o, sz) ==
    /\ pc = "poll"
    /\ outs[o].layer_surface
    /\ outs' = [outs EXCEPT ![o] = layer_configure(outs[o], sz[1], sz[2])]
    /\ LET \* the first configure of a new surface is awaited, not a disruption
           cost == IF outs'[o] = outs[o] \/ outs[o].state = "UNCONFIGURED" THEN 0 ELSE 1
       IN /\ faults + cost <= MaxFaults
          /\ faults' = faults + cost
    /\ last_op' = [kind |-> "configure", out |-> o, w |-> sz[1], h |-> sz[2],
                   pre_state |-> outs[o].state,
                   resized |-> layer_configure_resized(outs[o], sz[1], sz[2])]
    /\ UNCHANGED ghosts
    /\ UNCHANGED <<pc, quit, app, t, displayed_frame, target, decoded, have_frame, frame,
                   dec, rend, cursor, open_fds>>
    /\ UNCHANGED exits
    /\ UNCHANGED import_io

\* wl_display_dispatch_pending delivers a closed event
EvClosed(o) ==
    /\ pc = "poll"
    /\ outs[o].layer_surface
    /\ LET r == layer_closed(outs[o], rend.alive)
       IN /\ outs' = [outs EXCEPT ![o] = r.out]
          /\ app' = IF r.reset THEN [app EXCEPT !.renderer_needs_reset = TRUE] ELSE app
    /\ LET \* a closed event that repeats an earlier one is no new disruption
           cost == IF Pending(outs[o].state) THEN 0 ELSE 1
       IN /\ faults + cost <= MaxFaults
          /\ faults' = faults + cost
    /\ last_op' = [kind |-> "closed", out |-> o, live |-> ~Pending(outs[o].state),
                   had_egl |-> outs[o].egl_surface,
                   had_callback |-> outs[o].frame_callback]
    /\ UNCHANGED ghosts
    /\ UNCHANGED <<pc, quit, t, displayed_frame, target, decoded, have_frame, frame,
                   dec, rend, cursor, open_fds>>
    /\ UNCHANGED exits
    /\ UNCHANGED import_io

\* wl_display_dispatch_pending delivers the current mode of an output that had none
EvMode(o) ==
    /\ pc = "poll"
    /\ outs[o].width = 0
    /\ \E sz \in ConfigSizes : outs' = [outs EXCEPT ![o] = output_mode(outs[o], sz[1], sz[2])]
    /\ last_op' = NoLastOp
    /\ UNCHANGED ghosts
    /\ UNCHANGED faults
    /\ UNCHANGED <<pc, quit, app, t, displayed_frame, target, decoded, have_frame, frame,
                   dec, rend, cursor, open_fds>>
    /\ UNCHANGED exits
    /\ UNCHANGED import_io

\* wl_display_dispatch_pending delivers the done event of the active frame callback, or
\* of a callback that was destroyed while its event was on its way
EvFrameDone(o, cb) ==
    /\ pc = "poll"
    /\ cb = "active" => outs[o].frame_callback
    /\ cb = "orphan" => outs[o].orphaned
    /\ outs' = [outs EXCEPT ![o] = [frame_done(outs[o], cb) EXCEPT
                                      !.orphaned = IF cb = "orphan" THEN FALSE ELSE @]]
    /\ last_op' = IF cb = "active" THEN NoLastOp
                  ELSE [kind |-> "frame_done", out |-> o, cb |-> cb,
                        pre_state |-> outs[o].state,
                        had_callback |-> outs[o].frame_callback]
    /\ UNCHANGED ghosts
    /\ UNCHANGED faults
    /\ UNCHANGED <<pc, quit, app, t, displayed_frame, target, decoded, have_frame, frame,
                   dec, rend, cursor, open_fds>>
    /\ UNCHANGED exits
    /\ UNCHANGED import_io

\* the poll section is left: done events of destroyed callbacks that were not
\* dispatched in it are dropped with their proxies
events_dropped(os) == [o \in Outs |-> [os[o] EXCEPT !.orphaned = FALSE]]

\* flush, poll or read failed, or the display reports an error: break
PollError ==
    /\ pc = "poll"
    /\ outs' = events_dropped(outs)
    /\ pc' = "cleanup"
    /\ last_op' = NoLastOp
    /\ UNCHANGED ghosts
    /\ UNCHANGED faults
    /\ UNCHANGED <<quit, app, t, displayed_frame, target, decoded, have_frame, frame,
                   dec, rend, cursor, open_fds>>
    /\ fatal' = "wayland_error"
    /\ UNCHANGED exit_code
    /\ UNCHANGED import_io

\* poll interrupted by a signal: continue
PollEintr ==
    /\ pc = "poll"
    /\ outs' = events_dropped(outs)
    /\ pc' = "top"
    /\ last_op' = NoLastOp
    /\ UNCHANGED ghosts
    /\ UNCHANGED faults
    /\ UNCHANGED <<quit, app, t, displayed_frame, target, decoded, have_frame, frame,
                   dec, rend, cursor, open_fds>>
    /\ UNCHANGED exits
    /\ UNCHANGED import_io

\* poll returned and no output is ready: continue.  The t of this iteration is
\* never read, so the time that passed is part of the delay of a later iteration
PollIdle ==
    /\ pc = "poll"
    /\ outs' = events_dropped(outs)
    /\ ~any_output_ready(outs)
    /\ pc' = "top"
    /\ last_op' = NoLastOp
    /\ UNCHANGED ghosts
    /\ UNCHANGED faults
    /\ UNCHANGED <<quit, app, t, displayed_frame, target, decoded, have_frame, frame,
                   dec, rend, cursor, open_fds>>
    /\ UNCHANGED exits
    /\ UNCHANGED import_io

\* poll returned dt quanta later with an output ready; the clock picks the target frame
PollReturn(dt) ==
    /\ pc = "poll"
    /\ outs' = events_dropped(outs)
    /\ any_output_ready(outs)
    /\ t + dt <= MaxTime
    /\ rend.frame_count < MaxFrameCount
    /\ t' = RoundD(t + dt)
    /\ last_op' = NoLastOp
    /\ UNCHANGED faults
    /\ LET a1 == IF ~app.clock_started
                 THEN [app EXCEPT !.clock_started = TRUE, !.start_time = t']
                 ELSE app
           d1 == IF ~app.clock_started THEN -1 ELSE displayed_frame
           tg == clock_target(t', a1.start_time)
           hw == have_frame /\ frame.type = "HW"
           c  == IF tg > d1 /\ hw THEN decoder_close_dmabuf(frame, open_fds)
                 ELSE [frame |-> frame, open |-> open_fds]
       IN /\ app' = a1
          /\ displayed_frame' = d1
          /\ tick_displayed' = d1
          /\ paced' = IF paced = "reset" THEN "next" ELSE "no"
          /\ tick_calls' = 0
          /\ UNCHANGED reset_gen
          /\ frame' = c.frame
          /\ open_fds' = c.open
          /\ decoded' = 0
          /\ IF tg > d1
             THEN pc' = "catchup" /\ target' = tg
             ELSE pc' = "render" /\ target' = 0
    /\ UNCHANGED <<quit, have_frame, dec, rend, cursor>>
    /\ UNCHANGED exits
    /\ UNCHANGED import_io

\* one iteration of while (displayed_frame < target && decoded < max_skip)
CatchupStep ==
    /\ pc = "catchup"
    /\ catchup_continues(displayed_frame, target, decoded)
    /\ \E o \in DecodeOutcomes :
         LET L == [app |-> app, dec |-> dec, rend |-> rend, frame |-> frame,
                   open |-> open_fds, t |-> t, displayed_frame |-> displayed_frame,
                   target |-> target, decoded |-> decoded, have_frame |-> have_frame,
                   next |-> "loop"]
             \* a decoder that keeps failing within one iteration is one disruption
             again == last_op.kind = "decode" /\ last_op.outcome # "frame"
                      /\ o.kind = last_op.outcome /\ o.seek_ok
             cost == IF (o.kind = "frame" /\ o.export_ok) \/ again THEN 0 ELSE 1
         IN \E R \in {catchup_iteration(L, o)} :
            /\ R.dec.surface_generation <= MaxGen
            /\ o.kind = "frame" /\ ~o.export_ok =>
                  dec.hw_vaapi /\ (~dec.dmabuf_export_tested \/ dec.dmabuf_export_works)
            /\ o.kind # "frame" /\ ~o.seek_ok => app.loop
            /\ faults + cost <= MaxFaults
            /\ faults' = faults + cost
            /\ app' = R.app
            /\ dec' = R.dec
            /\ rend' = R.rend
            /\ frame' = R.frame
            /\ open_fds' = R.open
            /\ displayed_frame' = R.displayed_frame
            /\ target' = R.target
            /\ decoded' = R.decoded
            /\ have_frame' = R.have_frame
            /\ pc' = IF R.next = "break" THEN "pace" ELSE "catchup"
            /\ fatal' = IF R.app.running THEN fatal
                        ELSE IF o.kind = "error" THEN "decode_error"
                        ELSE IF app.loop THEN "seek_failed"
                        ELSE fatal
            /\ last_op' = [kind |-> "decode", outcome |-> o.kind, seek_ok |-> o.seek_ok,
                           export_ok |-> o.export_ok, loop |-> app.loop,
                           need_sw |-> need_sw_copy(app, dec),
                           was_locked |-> app.render_path_determined /\ app.use_dmabuf_path,
                           had_images |-> \E i \in CacheIdx : rend.cache[i].image # NoImage,
                           prev_displayed |-> displayed_frame]
    /\ tick_calls' = tick_calls + 1
    /\ UNCHANGED <<tick_displayed, paced, reset_gen>>
    /\ UNCHANGED <<quit, t, outs, cursor>>
    /\ UNCHANGED exit_code
    /\ UNCHANGED import_io

\* the loop condition fails
CatchupExit ==
    /\ pc = "catchup"
    /\ ~catchup_continues(displayed_frame, target, decoded)
    /\ pc' = "pace"
    /\ last_op' = NoLastOp
    /\ UNCHANGED ghosts
    /\ UNCHANGED faults
    /\ UNCHANGED <<quit, app, t, displayed_frame, target, decoded, have_frame, frame,
                   dec, rend, outs, cursor, open_fds>>
    /\ UNCHANGED exits
    /\ UNCHANGED import_io

\* if (target - displayed_frame > reset_threshold) reset the clock
Pace ==
    /\ pc = "pace"
    /\ app' = [app EXCEPT !.start_time = pacing_reset(app.start_time, t, displayed_frame, target)]
    /\ pc' = "render"
    /\ last_op' = NoLastOp
    /\ paced' = IF target - displayed_frame > reset_threshold THEN "reset" ELSE "no"
    /\ UNCHANGED <<tick_displayed, tick_calls, reset_gen>>
    /\ UNCHANGED faults
    /\ UNCHANGED <<quit, t, displayed_frame, target, decoded, have_frame, frame,
                   dec, rend, outs, cursor, open_fds>>
    /\ UNCHANGED exits
    /\ UNCHANGED import_io

\* the render loop's body for the output at the cursor
RenderOutput ==
    /\ pc = "render"
    /\ have_frame
    /\ cursor <= LastOut
    /\ \E import_ok \in BOOLEAN, frame_ok \in BOOLEAN :
         \E r \in {render_output(app, rend, dec, frame, cursor, outs[cursor], frame_ok,
                                 import_ok)} :
            LET cost == (IF import_ok THEN 0 ELSE 1) + (IF frame_ok THEN 0 ELSE 1)
            IN /\ app' = r.app
               /\ rend' = r.rend
               /\ dec' = r.dec
               /\ outs' = [outs EXCEPT ![cursor] = r.out]
               /\ last_op' = r.obs
               /\ ~import_ok => r.obs.kind = "draw" /\ r.obs.import_called
               /\ ~frame_ok => r.obs.kind = "draw"
               /\ faults + cost <= MaxFaults
               /\ faults' = faults + cost
    /\ cursor' = cursor + 1
    /\ UNCHANGED ghosts
    /\ UNCHANGED <<pc, quit, t, displayed_frame, target, decoded, have_frame, frame, open_fds>>
    /\ UNCHANGED exits
    /\ UNCHANGED import_io

\* end of the iteration
RenderEnd ==
    /\ pc = "render"
    /\ ~have_frame \/ cursor > LastOut
    /\ pc' = "top"
    /\ cursor' = FirstOut
    /\ target' = 0
    /\ decoded' = 0
    /\ last_op' = NoLastOp
    /\ tick_displayed' = displayed_frame
    /\ paced' = IF paced = "next" THEN "no" ELSE paced
    /\ UNCHANGED <<tick_calls, reset_gen>>
    /\ UNCHANGED faults
    /\ UNCHANGED <<quit, app, t, displayed_frame, have_frame, frame, dec, rend, outs, open_fds>>
    /\ UNCHANGED exits
    /\ UNCHANGED import_io

\* cleanup after the loop
Cleanup ==
    /\ pc = "cleanup"
    /\ LET hw == have_frame /\ frame.type = "HW"
           c  == IF hw THEN decoder_close_dmabuf(frame, open_fds)
                 ELSE [frame |-> frame, open |-> open_fds]
       IN /\ frame' = c.frame
          /\ open_fds' = c.open
    \* no event is dispatched after the loop
    /\ outs' = [o \in Outs |->
                  [wayland_destroy_surface(renderer_destroy_output(outs[o]))
                      EXCEPT !.orphaned = FALSE]]
    /\ rend' = [renderer_clear_cache(rend) EXCEPT !.alive = FALSE]
    /\ pc' = "done"
    /\ last_op' = NoLastOp
    /\ UNCHANGED ghosts
    /\ UNCHANGED faults
    /\ UNCHANGED <<quit, app, t, displayed_frame, target, decoded, have_frame, dec, cursor>>
    /\ exit_code' = <<0>>
    /\ UNCHANGED fatal
    /\ UNCHANGED import_io

Next ==
    \/ Signal
    \/ LoopExit
    \/ LoopTop
    \/ RendererReset
    \/ Lifecycle
    \/ \E o \in Outs, sz \in ConfigSizes : EvConfigure(o, sz)
    \/ \E o \in Outs : EvClosed(o)
    \/ \E o \in Outs : EvMode(o)
    \/ \E o \in Outs, cb \in {"active", "orphan"} : EvFrameDone(o, cb)
    \/ PollError
    \/ PollEintr
    \/ PollIdle
    \/ \E dt \in Delays : PollReturn(dt)
    \/ CatchupStep
    \/ CatchupExit
    \/ Pace
    \/ RenderOutput
    \/ RenderEnd
    \/ Cleanup

Spec == Init /\ [][Next]_vars

\* ================= properties =================

\* C1: every set of plane descriptors that decoder_get_frame exports into the Frame is
\* closed before the next decoder_get_frame call and before the process exits; the open
\* exported descriptors are always those of the one Frame, never of two frames.
C1_DescriptorsReleased ==
    /\ Cardinality(open_fds) <= 1
    /\ open_fds \subseteq {frame.fd}
    /\ pc = "catchup" => open_fds = {}
    /\ pc = "done" => open_fds = {}

\* a frame was exported, skipped by the catch-up loop, and its descriptors are closed
C1_Witness ==
    /\ pc = "catchup"
    /\ last_op.kind = "decode" /\ last_op.outcome = "frame"
    /\ frame.type = "HW" /\ frame.fd = NoFd
    /\ open_fds = {}

\* C2: a cache entry's image is always the one imported for the entry's own
\* (surface_id, generation), and a draw that succeeds through the cache presents the
\* image imported for exactly the frame's (surface_id, generation).
C2_CacheIdentity ==
    /\ \A i \in CacheIdx :
          rend.cache[i].image # NoImage =>
             rend.cache[i].image = <<rend.cache[i].surface_id, rend.cache[i].generation>>
    /\ (last_op.kind = "draw" /\ last_op.ok) => last_op.image = last_op.key

\* a frame was drawn through the cache while the cache also holds an image imported
\* for the same surface with another generation
C2_Witness ==
    /\ last_op.kind = "draw" /\ last_op.ok
    /\ \E i \in CacheIdx :
          /\ rend.cache[i].image # NoImage
          /\ rend.cache[i].surface_id = last_op.key[1]
          /\ rend.cache[i].generation # last_op.key[2]

C4_DrawOnlyReady ==
    [][ \A o \in Outs :
           ( \/ (last_op'.kind = "draw" /\ last_op'.out = o)
             \/ (outs'[o].frame_callback /\ ~outs[o].frame_callback) )
           => (pc = "render" /\ outs[o].state = "READY") ]_vars

\* the render loop drew one output while another one was revoked and not yet recreated
C4_Witness ==
    /\ last_op.kind = "draw"
    /\ \E o \in Outs \ {last_op.out} :
          outs[o].state \in {"PENDING_DESTROY", "PENDING_RECREATE"}

\* C5: once an import has failed (dmabuf_tested and not dmabuf_works), every later draw
\* uses the software upload and calls no import.
C5_SoftwareAfterImportFailure ==
    (last_op.kind = "draw" /\ last_op.was_blocked) =>
        (last_op.software /\ ~last_op.import_called)

C7_CachedSurfaceReused ==
    (last_op.kind = "draw" /\ last_op.was_locked /\ ~last_op.was_blocked
        /\ last_op.type = "HW" /\ last_op.fd # NoFd /\ last_op.had_sid) =>
        (last_op.ok /\ ~last_op.import_called)

\* C8: in one iteration at most max_skip frames are decoded and displayed_frame advances
\* by at most max_skip.
C8_BoundedCatchup ==
    /\ decoded <= max_skip
    /\ displayed_frame - tick_displayed <= max_skip

\* the catch-up loop stopped after max_skip frames with the target still ahead
C8_Witness ==
    /\ pc = "pace"
    /\ decoded = max_skip
    /\ displayed_frame - tick_displayed = max_skip
    /\ target - displayed_frame > max_skip

\* C9: the pacing check resets the start time, when target - displayed_frame exceeds
\* reset_threshold, so that the target computed for the same t equals displayed_frame,
\* and leaves the start time unchanged otherwise.
C9_PacingResetExact ==
    [][ (pc = "pace") =>
           IF target - displayed_frame > reset_threshold
           THEN clock_target(t, app'.start_time) = displayed_frame
           ELSE app'.start_time = app.start_time ]_vars

\* C10: after decoder_get_frame reported end of stream, with looping enabled and a
\* successful seek the cache holds no image, start_time is the iteration's t,
\* displayed_frame is -1 and the catch-up loop goes on; otherwise app.running is false
\* and the catch-up loop is left.
C10_LoopRestart ==
    (last_op.kind = "decode" /\ last_op.outcome = "eof") =>
        IF last_op.loop /\ last_op.seek_ok
        THEN /\ \A i \in CacheIdx : rend.cache[i].image = NoImage
             /\ app.start_time = t
             /\ displayed_frame = -1
             /\ app.running
             /\ pc = "catchup"
        ELSE /\ ~app.running
             /\ pc = "pace"

\* the stream ended after frames had been shown from cached images, and playback restarted
C10_Witness ==
    /\ last_op.kind = "decode" /\ last_op.outcome = "eof"
    /\ last_op.loop /\ last_op.seek_ok
    /\ last_op.had_images
    /\ last_op.prev_displayed >= 0

\* C11: a configure event that carries the size an output in state READY or
\* WAITING_CALLBACK is already configured with changes no program state and does not
\* resize the window.
C11_DuplicateConfigure ==
    [][ (/\ last_op'.kind = "configure"
         /\ outs[last_op'.out].state \in {"READY", "WAITING_CALLBACK"}
         /\ last_op'.w = outs[last_op'.out].configured_width
         /\ last_op'.h = outs[last_op'.out].configured_height) =>
            /\ ~last_op'.resized
            /\ UNCHANGED <<pc, quit, app, t, displayed_frame, target, decoded, have_frame,
                           frame, dec, rend, outs, cursor, open_fds>>
      ]_vars

\* a configure with the configured size reached an output that waits for its frame callback
C11_Witness ==
    /\ last_op.kind = "configure"
    /\ last_op.pre_state = "WAITING_CALLBACK"
    /\ outs[last_op.out].state = "WAITING_CALLBACK"
    /\ last_op.w = outs[last_op.out].configured_width
    /\ last_op.h = outs[last_op.out].configured_height
    /\ outs[last_op.out].egl_window
    /\ ~last_op.resized


\* C12: a renderer reset that follows the revoke of one output's surface destroys the
\* EGL surface of no output that is READY or WAITING_CALLBACK and leaves the lifecycle
\* state of every such output as it was.
C12_RevokeIsolated ==
    [][ last_op'.kind = "reset" =>
            \A o \in Outs :
                outs[o].state \in {"READY", "WAITING_CALLBACK"} =>
                    /\ outs'[o].state = outs[o].state
                    /\ o \notin last_op'.destroyed
      ]_vars

\* C13 as stated: a surface recreation leaves the image cache as it was.
C13_CacheSurvivesRecreation ==
    [][ (last_op'.kind = "lifecycle" /\ last_op'.recreated # {}) =>
            rend'.cache = rend.cache
      ]_vars

\* C13 as amended: a pass of process_output_lifecycle that recreated a surface empties
\* the image cache, releases the current frame and leaves have_frame false; a pass that
\* recreated none leaves the renderer and the frame as they were.
C13_RecreationClearsCache ==
    [][ /\ (last_op'.kind = "lifecycle" /\ last_op'.recreated # {}) =>
              /\ \A i \in CacheIdx : rend'.cache[i].image = NoImage
              /\ ~have_frame'
              /\ open_fds' = {}
              /\ \A o \in last_op'.recreated :
                    /\ outs'[o].state \in {"READY", "WAITING_CALLBACK"}
                    /\ outs'[o].egl_surface
        /\ (last_op'.kind = "lifecycle" /\ last_op'.recreated = {}) =>
              UNCHANGED <<rend, frame, have_frame, open_fds>>
      ]_vars

\* a surface has just been recreated while the cache held images
C13_Witness ==
    /\ last_op.kind = "lifecycle"
    /\ last_op.recreated # {}
    /\ last_op.had_images

\* C14: process_output_lifecycle and the reaction to recreated surfaces leave
\* dmabuf_tested, dmabuf_works, render_path_determined and use_dmabuf_path as they were;
\* render_path_determined goes from true to false only in reset_renderer.
C14_RecreationKeepsPath ==
    [][ /\ last_op'.kind = "lifecycle" =>
              /\ rend'.dmabuf_tested = rend.dmabuf_tested
              /\ rend'.dmabuf_works = rend.dmabuf_works
              /\ app'.render_path_determined = app.render_path_determined
              /\ app'.use_dmabuf_path = app.use_dmabuf_path
        /\ (app.render_path_determined /\ ~app'.render_path_determined) =>
              (last_op'.kind = "reset" /\ last_op'.ok)
      ]_vars

\* an output whose draw failed after the path was locked to zero-copy has been recreated
C14_Witness ==
    /\ last_op.kind = "lifecycle"
    /\ last_op.recreated # {}
    /\ app.render_path_determined /\ app.use_dmabuf_path
    /\ rend.dmabuf_tested /\ ~rend.dmabuf_works
    /\ ~app.renderer_needs_reset

\* C15: a successful reset_renderer leaves an empty image cache, dmabuf_tested and
\* render_path_determined false, no open descriptor of the current frame and a larger
\* surface generation; every image drawn afterwards carries a generation above the one
\* the decoder had when the reset began.
C15_FullReset ==
    [][ /\ (last_op'.kind = "reset" /\ last_op'.ok) =>
              /\ \A i \in CacheIdx : rend'.cache[i].image = NoImage
              /\ ~rend'.dmabuf_tested
              /\ ~app'.render_path_determined
              /\ open_fds' = {}
              /\ dec'.surface_generation > dec.surface_generation
        /\ (last_op'.kind = "draw" /\ last_op'.image # NoImage) =>
              last_op'.image[2] > reset_gen'
      ]_vars

\* a reset has just succeeded on a renderer that held images, had tested the import and
\* had determined the render path
C15_Witness ==
    /\ last_op.kind = "reset" /\ last_op.ok
    /\ last_op.had_images /\ last_op.was_tested /\ last_op.was_determined
    /\ reset_gen >= 1

\* C16: a draw whose zero-copy import failed is completed through the software upload,
\* and the output it drew to is not torn down.
C16_ImportFailureFallsBack ==
    (last_op.kind = "draw" /\ last_op.import_called /\ ~last_op.ok) =>
        /\ last_op.software
        /\ outs[last_op.out].state \in {"READY", "WAITING_CALLBACK"}
        /\ outs[last_op.out].egl_surface

\* C17: a decode or read error (not end of stream) ends the playback loop, with or
\* without looping; it is not followed by a seek to the start and more decoding.
C17_ErrorStopsPlayback ==
    (last_op.kind = "decode" /\ last_op.outcome = "error") => ~app.running

\* C18: after cleanup the exit code is nonzero when a runtime error ended the loop, and
\* zero when a signal or the end of a non-looping stream ended it.
C18_ExitCodeTellsError ==
    pc = "done" => /\ exit_code # <<>>
                   /\ (fatal # "none" => exit_code # <<0>>)
                   /\ (fatal = "none" => exit_code = <<0>>)

\* C19: no two occupied slots of the image cache carry the same surface id.
C19_OneEntryPerSurface ==
    \A i, j \in CacheIdx :
        (/\ i # j
         /\ rend.cache[i].image # NoImage
         /\ rend.cache[j].image # NoImage) =>
            rend.cache[i].surface_id # rend.cache[j].surface_id

\* C21: once quit is set the iteration in progress comes to its end (its catch-up loop
\* makes no more decoder calls than max_skip frames and one restart need), the loop
\* condition then leads to the cleanup and to nothing else, and the cleanup closes the
\* current frame's descriptors and destroys every output's surfaces and the renderer.
C21_SignalStops ==
    [][ /\ quit' => tick_calls' <= max_skip + 1
        /\ (quit /\ pc = "top") => pc' = "cleanup"
        /\ pc' = "done" =>
              /\ pc = "cleanup"
              /\ open_fds' = {}
              /\ ~rend'.alive
              /\ \A o \in Outs : ~outs'[o].surface /\ ~outs'[o].egl_surface
      ]_vars

\* C22: when eglCreateImageKHR is called for a frame with 1 to 4 planes it gets the
\* frame's fourcc and, for each of the frame's planes, the plane's descriptor, offset,
\* stride and modifier as the DmaBuf holds them.
C22_PlanesPassedUnchanged ==
    (pc = "imported" /\ egl_attr.called) =>
        /\ egl_attr.fourcc = dmabuf.fourcc
        /\ Len(egl_attr.planes) = dmabuf.num_planes
        /\ \A i \in 1..dmabuf.num_planes :
              i <= Len(egl_attr.planes) =>
                 /\ egl_attr.planes[i].fd = dmabuf.fd[i]
                 /\ egl_attr.planes[i].offset = dmabuf.offset[i]
                 /\ egl_attr.planes[i].pitch = dmabuf.stride[i]
                 /\ egl_attr.planes[i].modifier =
                       <<dmabuf.modifier[i] % Pow2(ModHalfBits),
                         dmabuf.modifier[i] \div Pow2(ModHalfBits)>>

\* C23: the frame the render loop is given holds open descriptors whenever it is a
\* hardware frame: descriptors are closed only for frames that are not drawn afterwards.
C23_RenderedFrameOpen ==
    (pc = "render" /\ have_frame /\ frame.type = "HW") =>
        (frame.fd # NoFd /\ frame.fd \in open_fds)

\* C24: the catch-up loop of one iteration calls decoder_get_frame at most max_skip
\* times for frames and once more for a loop restart, then goes on to the pacing check
\* and the render loop.
C24_TickTerminates ==
    tick_calls <= max_skip + 1

\* C25: every output that renderer_draw is called for has an EGL surface; an output is
\* READY in the render loop only with its EGL surface created.
C25_DrawnOutputHasSurface ==
    /\ last_op.kind = "draw" => last_op.egl
    /\ pc = "render" =>
          \A o \in Outs : outs[o].state = "READY" => outs[o].egl_surface

\* C26: renderer_draw uses the zero-copy path (a cached image or a new import) only
\* with try_dmabuf set, a hardware frame and the import not known to fail; it uploads
\* from the CPU copy exactly when the zero-copy path did not draw and the frame has a
\* CPU copy; it returns true exactly when the zero-copy path drew.
C26_DrawPaths ==
    last_op.kind = "draw" =>
        /\ (last_op.import_called \/ last_op.image # NoImage) =>
              (last_op.try_dmabuf /\ last_op.type = "HW" /\ ~last_op.was_blocked)
        /\ last_op.software <=> (last_op.image = NoImage /\ last_op.sw_available)
        /\ last_op.ok <=> last_op.image # NoImage

\* a hardware frame with a CPU copy was drawn by upload without trying the import
C26_Witness ==
    /\ last_op.kind = "draw"
    /\ last_op.type = "HW" /\ ~last_op.try_dmabuf
    /\ last_op.software /\ ~last_op.ok

C28_FirstImportDecides ==
    [][ ~(pc = "top" /\ app.renderer_needs_reset) =>
          /\ (rend.dmabuf_tested /\ rend.dmabuf_works) => rend'.dmabuf_works
          /\ rend.dmabuf_tested => rend'.dmabuf_tested ]_vars

\* C29: the handler of a closed event for a live output destroys the output's EGL
\* surface and frame callback, sets PENDING_DESTROY and asks for a renderer reset, and
\* leaves the wl_surface and the layer surface alive; they stay alive, and the state
\* stays PENDING_DESTROY, through every step up to the next lifecycle pass (or the
\* cleanup at exit); the lifecycle pass destroys them: after it the output is in
\* PENDING_RECREATE without surfaces, or holds the surface the same pass created
C29_DeferredDestruction ==
    [][ \A o \in Outs :
          /\ (last_op'.kind = "closed" /\ last_op' # last_op
                 /\ last_op'.out = o /\ last_op'.live) =>
                /\ outs'[o].state = "PENDING_DESTROY"
                /\ ~outs'[o].egl_surface /\ ~outs'[o].egl_window
                /\ ~outs'[o].frame_callback
                /\ outs'[o].surface = outs[o].surface
                /\ outs'[o].layer_surface
                /\ app'.renderer_needs_reset
          /\ (outs[o].state = "PENDING_DESTROY" /\ pc \notin {"lifecycle", "cleanup"}) =>
                /\ outs'[o].state = "PENDING_DESTROY"
                /\ outs'[o].surface = outs[o].surface
                /\ outs'[o].layer_surface = outs[o].layer_surface
                /\ ~outs'[o].egl_surface
          /\ (outs[o].state = "PENDING_DESTROY" /\ pc = "lifecycle") =>
                /\ o \in last_op'.closed
                /\ outs'[o].state # "PENDING_DESTROY"
                /\ outs'[o].state = "PENDING_RECREATE" =>
                      (~outs'[o].surface /\ ~outs'[o].layer_surface)
                /\ outs'[o].state # "PENDING_RECREATE" =>
                      /\ outs'[o].state \in {"UNCONFIGURED", "READY"}
                      /\ outs'[o].surface /\ outs'[o].layer_surface
                      /\ ~outs'[o].frame_callback ]_vars

\* the renderer was reset because the compositor closed a surface, and the lifecycle
\* pass that followed has processed the output left in PENDING_DESTROY
C29_Witness ==
    /\ last_op.kind = "lifecycle"
    /\ last_op.closed # {}
    /\ reset_gen # -1

\* C30: a lifecycle pass gives an output in PENDING_DESTROY or PENDING_RECREATE a new
\* surface only if its announced width and height are non-zero, its name is non-empty
\* and it matches the output filter, and it does try whenever they are; when the
\* wl_surface, the layer surface or the EGL surface could not be created the output is
\* in PENDING_RECREATE without surfaces after the pass; between passes it stays so
C30_RecreationNeedsInfo ==
    [][ \A o \in Outs :
          LET before == outs[o]
              after == outs'[o]
              wanted == before.state \in {"PENDING_DESTROY", "PENDING_RECREATE"}
              complete == /\ before.width > 0 /\ before.height > 0 /\ before.name # ""
                          /\ (app.output_name = "*" \/ before.name = app.output_name)
          IN /\ (pc = "lifecycle" /\ wanted /\ after.surface) => complete
             /\ (pc = "lifecycle" /\ wanted /\ ~complete) =>
                   (after.state = "PENDING_RECREATE" /\ ~after.surface)
             /\ (pc = "lifecycle" /\ wanted /\ complete /\ o \notin last_op'.failed) =>
                   (after.surface /\ after.state \in {"READY", "UNCONFIGURED"})
             /\ (pc = "lifecycle" /\ wanted /\ complete /\ o \in last_op'.failed) =>
                   /\ after.state = "PENDING_RECREATE"
                   /\ ~after.surface /\ ~after.layer_surface /\ ~after.egl_surface
             /\ (pc # "lifecycle" /\ before.state = "PENDING_RECREATE") =>
                   (after.state = "PENDING_RECREATE" /\ ~after.surface) ]_vars

\* a lifecycle pass tried to recreate a surface, the creation failed, and the output is
\* in PENDING_RECREATE for the next pass
C30_Witness ==
    /\ last_op.kind = "lifecycle"
    /\ \E o \in last_op.failed : outs[o].state = "PENDING_RECREATE" /\ ~outs[o].surface

\* C31: a closed event for an output in PENDING_DESTROY, PENDING_RECREATE or DEFUNCT
\* changes neither the outputs nor the renderer nor the application state (no renderer
\* reset is requested), and handling the event a second time leaves every output as
\* the first handling left it
C31_RevokeIdempotent ==
    [][ /\ (last_op'.kind = "closed" /\ last_op' # last_op /\ ~last_op'.live) =>
              (outs' = outs /\ app' = app /\ rend' = rend /\ open_fds' = open_fds)
        /\ \A o \in Outs :
              LET once == layer_closed(outs[o], rend.alive)
                  twice == layer_closed(once.out, rend.alive)
              IN /\ twice.out = once.out
                 /\ ~twice.reset
                 /\ Pending(outs[o].state) => (once.out = outs[o] /\ ~once.reset) ]_vars

\* a closed event was delivered to an output that was already being destroyed
C31_Witness ==
    /\ last_op.kind = "closed"
    /\ ~last_op.live
    /\ outs[last_op.out].state = "PENDING_DESTROY"

\* C32: a draw is issued for an output in READY without a pending callback; when the
\* frame request made before the draw got its callback, the output is left in
\* WAITING_CALLBACK with one pending callback (or in PENDING_DESTROY when the draw
\* failed), and when wl_surface_frame gave none the output stays READY without a
\* callback; an output in WAITING_CALLBACK is not drawn to and returns to READY only by
\* the done event of its active callback; an output never has more than one live frame
\* callback, and has one while it waits
C32_ThrottledByCallback ==
    [][ \A o \in Outs :
          /\ outs[o].callbacks = (IF outs[o].frame_callback THEN 1 ELSE 0)
          /\ outs[o].state = "WAITING_CALLBACK" => outs[o].frame_callback
          /\ (pc = "render" /\ cursor' # cursor /\ last_op'.kind = "draw"
                 /\ last_op'.out = o) =>
                /\ cursor = o
                /\ outs[o].state = "READY" /\ ~outs[o].frame_callback
                /\ outs'[o].frame_callback = last_op'.requested
                /\ outs'[o].callbacks = (IF last_op'.requested THEN 1 ELSE 0)
                /\ outs'[o].state =
                      IF ~(last_op'.ok \/ last_op'.sw_available) THEN "PENDING_DESTROY"
                      ELSE IF last_op'.requested THEN "WAITING_CALLBACK" ELSE "READY"
          /\ (pc = "render" /\ cursor = o /\ cursor' # cursor
                 /\ outs[o].state = "WAITING_CALLBACK") =>
                (last_op'.kind = "none" /\ outs'[o] = outs[o])
          /\ (outs[o].state = "WAITING_CALLBACK" /\ outs'[o].state = "READY") =>
                /\ pc = "poll"
                /\ outs[o].frame_callback /\ ~outs'[o].frame_callback
                /\ outs'[o].callbacks = 0 ]_vars

\* an output that was drawn to and waits for its callback is passed over by the render
\* loop of a later iteration
C32_Witness ==
    /\ pc = "render"
    /\ cursor = LastOut + 1
    /\ rend.frame_count >= 1
    /\ last_op.kind = "none"
    /\ outs[LastOut].state = "WAITING_CALLBACK"
    /\ outs[LastOut].callbacks = 1

\* C32 as stated: every draw is preceded by a frame request that leaves the output in
\* WAITING_CALLBACK with a pending callback (PENDING_DESTROY when the draw failed)
C32_EveryDrawThrottled ==
    [][ \A o \in Outs :
          /\ (pc = "render" /\ cursor' # cursor /\ last_op'.kind = "draw"
                 /\ last_op'.out = o) =>
                /\ cursor = o
                /\ outs[o].state = "READY" /\ ~outs[o].frame_callback
                /\ outs'[o].state \in {"WAITING_CALLBACK", "PENDING_DESTROY"}
                /\ outs'[o].frame_callback /\ outs'[o].callbacks = 1
                /\ outs'[o].state = "WAITING_CALLBACK" <=>
                      (last_op'.ok \/ last_op'.sw_available) ]_vars

C34_RingRoundRobin ==
    [][ /\ frame.ring_slot \in 0..(SW_RING_SIZE - 1)
        /\ dec.current_ring_slot = dec.sw_seq % SW_RING_SIZE
        /\ frame.sw_available => dec.ring[frame.ring_slot] = frame.sw_stamp
        /\ dec'.sw_seq # dec.sw_seq =>
              /\ pc = "catchup"
              /\ dec'.sw_seq = (dec.sw_seq + 1) % (2 * SW_RING_SIZE)
              /\ dec'.current_ring_slot = (dec.current_ring_slot + 1) % SW_RING_SIZE
              /\ frame'.sw_available /\ frame'.ring_slot = dec.current_ring_slot
              /\ dec'.ring = [dec.ring EXCEPT ![dec.current_ring_slot] = dec.sw_seq]
        /\ dec'.sw_seq = dec.sw_seq => dec'.ring = dec.ring
        /\ (pc = "render" /\ cursor' # cursor /\ last_op'.kind = "draw"
               /\ last_op'.software) =>
              /\ last_op'.ring_slot = frame.ring_slot
              /\ last_op'.ring_intact ]_vars

\* a software draw reads slot 0 after the ring was written all the way round
C34_Witness ==
    /\ last_op.kind = "draw" /\ last_op.software /\ last_op.ring_slot = 0
    /\ dec.sw_seq = SW_RING_SIZE + 1 /\ dec.ring[0] = SW_RING_SIZE

\* C35: after an export every descriptor the accelerator returned is open and held by
\* exactly one plane, or closed and held by none; no two planes hold the same
\* descriptor; of the planes that share an object the first holds the object's
\* descriptor and each other one a duplicate (none if dup() failed); nothing else is
\* open. decoder_close_dmabuf then closes each open descriptor once and leaves none
\* open, and called again it closes nothing
C35_DescriptorOwnership ==
    /\ pc = "exported" =>
          LET objects == last_op.objects
              planes == last_op.planes
              returned == {objects[i] : i \in 1..Len(objects)}
              holders(fd) == {i \in 1..4 : dmabuf.fd[i] = fd}
          IN /\ \A fd \in returned :
                   \/ fd \in open_fds /\ Cardinality(holders(fd)) = 1
                   \/ fd \notin open_fds /\ holders(fd) = {}
             /\ \A i, j \in 1..4 : (i # j /\ dmabuf.fd[i] >= 0) => dmabuf.fd[i] # dmabuf.fd[j]
             /\ open_fds = {dmabuf.fd[i] : i \in 1..4} \ {NoFd}
             /\ \A i \in (dmabuf.num_planes + 1)..4 : dmabuf.fd[i] = NoFd
             /\ \A i, j \in 1..dmabuf.num_planes :
                   (i < j /\ planes[i] = planes[j] /\ planes[i] < Len(objects)) =>
                      /\ \E k \in 1..i : /\ planes[k] = planes[i]
                                         /\ dmabuf.fd[k] = objects[planes[i] + 1]
                      /\ dmabuf.fd[j] \notin returned
                      /\ dmabuf.fd[j] = NoFd <=> ~last_op.dup_ok
    /\ pc = "closed" =>
          /\ open_fds = {} /\ \A i \in 1..4 : dmabuf.fd[i] = NoFd
          /\ ~last_op.bad
          /\ Len(last_op.closed) = Cardinality(last_op.open_before)
          /\ {last_op.closed[i] : i \in 1..Len(last_op.closed)} = last_op.open_before
    /\ pc = "closed_again" =>
          /\ last_op.closed = <<>> /\ ~last_op.bad
          /\ open_fds = {} /\ \A i \in 1..4 : dmabuf.fd[i] = NoFd

\* four planes on two objects were exported, two of them with duplicates, and closed
C35_Witness ==
    /\ pc = "closed" /\ last_op.kind = "close_dmabuf"
    /\ Len(last_op.closed) = 4
    /\ \E i \in 1..4 : last_op.closed[i] > 2 + MaxObjects

\* C35 as stated: after an export every plane that shares its object with an earlier
\* plane holds a duplicate of the object's descriptor
C35_SharedPlanesHoldDuplicates ==
    pc = "exported" =>
       \A i, j \in 1..dmabuf.num_planes :
          (i < j /\ last_op.planes[i] = last_op.planes[j]
                 /\ last_op.planes[i] < Len(last_op.objects)) =>
             /\ dmabuf.fd[j] >= 0
             /\ dmabuf.fd[j] \notin {last_op.objects[k] : k \in 1..Len(last_op.objects)}

C37_ZeroCopyRetried ==
    [][ (pc = "catchup" /\ tick_calls' # tick_calls
            /\ last_op'.kind = "decode" /\ last_op'.outcome = "frame" /\ last_op'.export_ok
            /\ dec.hw_vaapi /\ dec.dmabuf_export_tested /\ ~dec.dmabuf_export_works
            /\ rend.alive /\ ~app.render_path_determined /\ reset_gen # -1) =>
          frame'.type = "HW" ]_vars

\* C38: the decoder's surface generation never decreases; an export gives the frame the
\* current generation, which is above the generation of the latest exported frame, and
\* advances it, so the generations of exported frames strictly increase across exports,
\* seeks and renderer resets
C38_GenerationFresh ==
    [][ /\ dec'.surface_generation >= dec.surface_generation
        /\ dec.last_exported < dec.surface_generation
        /\ dec'.last_exported >= dec.last_exported
        /\ (pc = "catchup" /\ tick_calls' # tick_calls /\ last_op'.outcome = "frame"
               /\ frame'.type = "HW") =>
              /\ dec'.last_exported = dec.surface_generation
              /\ dec'.last_exported > dec.last_exported
              /\ frame'.generation = dec'.last_exported
              /\ dec'.surface_generation = dec.surface_generation + 1
        /\ dec'.last_exported # dec.last_exported =>
              (pc = "catchup" /\ last_op'.kind = "decode" /\ last_op'.outcome = "frame"
                 /\ frame'.type = "HW")
        /\ \A i \in CacheIdx :
              rend.cache[i].image # NoImage => rend.cache[i].generation <= dec.last_exported
      ]_vars

\* a frame was exported after a seek back to the start and after earlier exports
C38_Witness ==
    /\ frame.type = "HW" /\ frame.generation = dec.last_exported
    /\ dec.last_exported > SeekGenStep
    /\ \E i \in CacheIdx : /\ rend.cache[i].image # NoImage
                            /\ rend.cache[i].generation = dec.last_exported

\* C39: an output in PENDING_RECREATE has no wl_surface, no layer surface, no EGL
\* surface, no wl_egl_window and no frame callback; an output in PENDING_DESTROY has no
\* EGL surface and no wl_egl_window
C39_PendingOwnsNothing ==
    \A o \in Outs :
       /\ outs[o].state = "PENDING_RECREATE" =>
             /\ ~outs[o].surface /\ ~outs[o].layer_surface
             /\ ~outs[o].egl_surface /\ ~outs[o].egl_window
             /\ ~outs[o].frame_callback /\ outs[o].callbacks = 0
       /\ outs[o].state = "PENDING_DESTROY" =>
             /\ ~outs[o].egl_surface /\ ~outs[o].egl_window

\* an output waits for its destruction after a failed draw, with its surface and its
\* frame callback still there and its EGL surface gone
C39_Witness ==
    /\ last_op.kind = "draw" /\ ~last_op.ok /\ ~last_op.sw_available /\ last_op.egl
    /\ outs[last_op.out].state = "PENDING_DESTROY"
    /\ outs[last_op.out].surface /\ outs[last_op.out].frame_callback
    /\ ~outs[last_op.out].egl_surface

\* C40: when a software draw writes the rows of a frame, the luma and the chroma texture
\* object of the renderer have storage of the frame's size, and a texture that already
\* has storage of that size is not allocated again
C40_TexturesAllocated ==
    [][ (pc = "render" /\ cursor' # cursor /\ last_op'.kind = "draw"
            /\ last_op'.software) =>
          /\ last_op'.upload.y_ready
          /\ last_op'.upload.uv_ready
          /\ last_op'.upload.y_alloc => rend.tex_y # <<VideoWidth, VideoHeight>>
          /\ last_op'.upload.uv_alloc =>
                rend.tex_uv # <<VideoWidth \div 2, VideoHeight \div 2>> ]_vars


\* C20: an output for which wayland_create_surface or renderer_create_output failed
\* during a recreation is DEFUNCT afterwards, and a DEFUNCT output stays DEFUNCT
\* and is not drawn to.
C20_FailedRecreationDefunct ==
    [][ /\ last_op'.kind = "lifecycle" =>
              \A o \in last_op'.failed : outs'[o].state = "DEFUNCT"
        /\ \A o \in Outs : outs[o].state = "DEFUNCT" => outs'[o].state = "DEFUNCT"
        /\ last_op'.kind = "draw" => last_op'.pre_state # "DEFUNCT"
      ]_vars

TypeOK ==
    /\ pc \in {"top", "lifecycle", "poll", "catchup", "pace", "render", "cleanup", "done"}
    /\ quit \in BOOLEAN
    /\ have_frame \in BOOLEAN
    /\ \A o \in Outs : outs[o].state \in OutStates
    /\ frame.type \in {"HW", "SW"}
    /\ dec.sw_seq \in SwStamps /\ frame.sw_stamp \in SwStamps
    /\ decoded \in 0..max_skip
    /\ reset_gen \in -1..MaxGen
    /\ tick_calls \in 0..(max_skip + 1 + MaxGen \div SeekGenStep)
    /\ fatal \in {"none", "wayland_error", "reset_failed", "decode_error", "seek_failed"}
    /\ exit_code \in {<<>>, <<0>>}
    /\ last_op.kind \in {"none", "decode", "draw", "configure", "lifecycle", "reset", "closed",
                         "frame_done"}

====
